---------------------------- MODULE Spec2Model ----------------------------
(***************************************************************************)
(* Model of the detection-aggregation-to-overlay pipeline:                 *)
(*   item_tracker.track_items -> orchestrator step 4.5 (face crops) ->     *)
(*   cropper.crop_items -> quality_check.filter_crops -> orchestrator      *)
(*   step 6.5 (glasses) -> price_estimator.estimate_prices ->              *)
(*   overlay.render_overlay.                                               *)
(*                                                                         *)
(* Representation of the program's values:                                 *)
(*   - a dict is a function from its keys (strings) to values; a missing   *)
(*     key is a key outside DOMAIN, and d["k"] on it raises KeyError;      *)
(*   - a confidence is an integer number of hundredths (0.6 is 60);        *)
(*   - a bbox is a tuple <<x1, y1, x2, y2>> of integers;                   *)
(*   - a frame path is named by its stem; its image is ImageOf(stem);      *)
(*   - an image metric (blur, contrast, black ratio) is an integer number  *)
(*     of thousandths, round(x, 2) gives hundredths;                       *)
(*   - a formatted string is the sequence of its parts;                    *)
(*   - a time of the overlay (a Python float, an IEEE 754 double) is held  *)
(*     exactly, as the natural number K of the value K * 2^-52 seconds,    *)
(*     written as three limbs <<high, middle, low>> of 20 bits each.       *)
(***************************************************************************)
EXTENDS Integers, Sequences, FiniteSets, TLC

(***************************************************************************)
(* Bounds of the model.                                                    *)
(***************************************************************************)
\* longest detection list handed to track_items
MaxDets == 3
\* largest coordinate of the grid the geometry functions are explored on, in
\* units of 20 pixels
MaxCoord == 3
\* largest coordinate of the boxes _iou is explored on, in units of 10 pixels
MaxIouCoord == 2
\* longest list of crops handed to filter_crops called on its own
MaxCrops == 3
\* longest list of priced items handed to render_overlay called on its own
MaxItems == 8

(***************************************************************************)
(* Program constants.                                                      *)
(***************************************************************************)
\* iou_threshold = 0.5, in hundredths
IOU_THRESHOLD == 50
\* padding_ratio = 0.15, in hundredths
PADDING_RATIO == 15
\* PRICE_CONFIDENCE_MIN = 0.6, in hundredths
PRICE_CONFIDENCE_MIN == 60
MIN_WIDTH == 64
MIN_HEIGHT == 64
MIN_AREA == 64 * 64
\* BLUR_THRESHOLD = 90.0, in thousandths
BLUR_THRESHOLD == 90000
\* MIN_CONTRAST_STD = 15.0, in thousandths
MIN_CONTRAST_STD == 15000
\* MAX_BLACK_RATIO = 0.6, in thousandths
MAX_BLACK_RATIO == 600
\* the literal of ITEM_DISPLAY_SECONDS = 1.8, in tenths
ITEM_DISPLAY_SECONDS == 18
\* settings.py, the defaults of the environment variables: seconds, pixels
MAX_VIDEO_DURATION_SEC == 90
MIN_VIDEO_RESOLUTION == 720
\* settings.py spells the dash of this string as the three characters U+00E2
\* U+20AC U+201C; the rule table spells its ranges with U+2013
DEFAULT_PRICE_RANGE == "$500 U+00E2 U+20AC U+201C $5,000"
DETECTION_CLASSES == {"shoe", "watch", "necklace", "ring", "bracelet"}

(***************************************************************************)
(* Small helpers for Python's arithmetic and dicts.                        *)
(***************************************************************************)
Max(a, b) == IF a >= b THEN a ELSE b
Min(a, b) == IF a <= b THEN a ELSE b

\* int(n / d) for d > 0: truncation towards zero
TruncDiv(n, d) == IF n >= 0 THEN n \div d ELSE -((-n) \div d)

\* d.get(k) is not None
Has(d, k) == k \in DOMAIN d

\* {**d, k: v} and d[k] = v
Put(d, k, v) == [x \in (DOMAIN d) \cup {k} |-> IF x = k THEN v ELSE d[x]]

\* str.lower() on the category names of the model's vocabulary
Lower(s) ==
    CASE s = "Watch" -> "watch"
      [] s = "WATCH" -> "watch"
      [] s = "Hat"   -> "hat"
      [] OTHER       -> s

\* str(n) for 0 <= n <= 999, as the sequence of its digits
DigitChar(d) == <<"0", "1", "2", "3", "4", "5", "6", "7", "8", "9">>[d + 1]
Str(n) ==
    IF n < 10 THEN <<DigitChar(n)>>
    ELSE IF n < 100 THEN <<DigitChar(n \div 10), DigitChar(n % 10)>>
    ELSE <<DigitChar(n \div 100), DigitChar((n \div 10) % 10), DigitChar(n % 10)>>

\* f"{n:02d}": at least two digits, zero-padded
Fmt02d(n) == IF n < 10 THEN <<"0">> \o Str(n) ELSE Str(n)

(***************************************************************************)
(* Geometry: item_tracker._iou and cropper._expand_bbox.                   *)
(***************************************************************************)
InterArea(box1, box2) ==
    LET xA == Max(box1[1], box2[1])
        yA == Max(box1[2], box2[2])
        xB == Min(box1[3], box2[3])
        yB == Min(box1[4], box2[4])
    IN  Max(0, xB - xA) * Max(0, yB - yA)

BoxArea(box) == (box[3] - box[1]) * (box[4] - box[2])

\* the denominator box1_area + box2_area - inter_area of _iou
UnionArea(box1, box2) == BoxArea(box1) + BoxArea(box2) - InterArea(box1, box2)

\* _iou without the early return on an empty intersection: it divides
\* whatever the intersection
IouRaisesUnguarded(box1, box2) == UnionArea(box1, box2) = 0

\* _iou raises ZeroDivisionError: it divides, and the divisor is 0
IouRaises(box1, box2) ==
    InterArea(box1, box2) # 0 /\ UnionArea(box1, box2) = 0

\* _iou dividing by the area of its first box instead of by the union
IouOverFirstBox(box1, box2) ==
    IF InterArea(box1, box2) = 0 THEN <<0, 1>>
    ELSE <<InterArea(box1, box2), BoxArea(box1)>>

\* _iou as the fraction <<numerator, denominator>>; 0.0 is <<0, 1>>
Iou(box1, box2) ==
    IF InterArea(box1, box2) = 0 THEN <<0, 1>>
    ELSE <<InterArea(box1, box2), UnionArea(box1, box2)>>

\* fraction q = <<n, d>> (d # 0) compared with t hundredths: q >= t / 100
FracGE(q, t) ==
    IF q[2] > 0 THEN 100 * q[1] >= t * q[2] ELSE 100 * q[1] <= t * q[2]

\* _iou(box1, box2) >= iou_threshold
IouAtLeast(box1, box2, thr) == FracGE(Iou(box1, box2), thr)

\* _expand_bbox without the max(0, ...) on the upper-left corner
ExpandBboxUnclamped(bbox, img_width, img_height, padding_ratio) ==
    LET pad_w == TruncDiv((bbox[3] - bbox[1]) * padding_ratio, 100)
        pad_h == TruncDiv((bbox[4] - bbox[2]) * padding_ratio, 100)
    IN  <<bbox[1] - pad_w, bbox[2] - pad_h,
          Min(img_width, bbox[3] + pad_w), Min(img_height, bbox[4] + pad_h)>>

\* _expand_bbox(bbox, img_width, img_height, padding_ratio), the ratio in
\* hundredths
ExpandBbox(bbox, img_width, img_height, padding_ratio) ==
    LET w == bbox[3] - bbox[1]
        h == bbox[4] - bbox[2]
        pad_w == TruncDiv(w * padding_ratio, 100)
        pad_h == TruncDiv(h * padding_ratio, 100)
        nx1 == Max(0, bbox[1] - pad_w)
        ny1 == Max(0, bbox[2] - pad_h)
        nx2 == Min(img_width, bbox[3] + pad_w)
        ny2 == Min(img_height, bbox[4] + pad_h)
    IN  <<nx1, ny1, nx2, ny2>>

(***************************************************************************)
(* item_tracker.track_items                                                *)
(***************************************************************************)
\* the keys of `grouped` in insertion order: the item classes of the
\* detections in order of first appearance
RECURSIVE GroupKeys(_)
GroupKeys(detections) ==
    IF detections = <<>> THEN <<>>
    ELSE LET n == Len(detections)
             before == GroupKeys(SubSeq(detections, 1, n - 1))
             k == detections[n]["item"]
         IN  IF \E i \in 1..Len(before) : before[i] = k
             THEN before ELSE Append(before, k)

\* grouped[item_name]
Grouped(detections, item_name) ==
    SelectSeq(detections, LAMBDA d : d["item"] = item_name)

\* the inner loop matching on any overlap of positive area instead of on
\* _iou(...) >= iou_threshold
RECURSIVE FirstMatchAnyOverlap(_, _, _, _)
FirstMatchAnyOverlap(det, clusters, k, thr) ==
    IF k > Len(clusters) THEN 0
    ELSE IF InterArea(det["bbox"], clusters[k][1]["bbox"]) > 0 THEN k
    ELSE FirstMatchAnyOverlap(det, clusters, k + 1, thr)

\* the inner loop without its `break`: the latest-created cluster whose
\* anchor matches wins
RECURSIVE FirstMatchLatest(_, _, _, _)
FirstMatchLatest(det, clusters, k, thr) ==
    IF k > Len(clusters) THEN 0
    ELSE IF FirstMatchLatest(det, clusters, k + 1, thr) # 0
    THEN FirstMatchLatest(det, clusters, k + 1, thr)
    ELSE IF IouAtLeast(det["bbox"], clusters[k][1]["bbox"], thr) THEN k
    ELSE 0

\* the inner loop with its comparison reversed: the first cluster whose
\* anchor stays below the threshold wins
FirstMatchBelow(det, clusters, k, thr) ==
    IF \E c \in k..Len(clusters) :
           ~IouAtLeast(det["bbox"], clusters[c][1]["bbox"], thr)
    THEN CHOOSE c \in k..Len(clusters) :
             /\ ~IouAtLeast(det["bbox"], clusters[c][1]["bbox"], thr)
             /\ \A b \in k..(c - 1) :
                   IouAtLeast(det["bbox"], clusters[b][1]["bbox"], thr)
    ELSE 0

\* the inner `for cluster in clusters` loop from cluster k on: the index of
\* the first cluster whose anchor matches, 0 when none does, -1 when _iou
\* raises before a match is found
RECURSIVE FirstMatch(_, _, _, _)
FirstMatch(det, clusters, k, thr) ==
    IF k > Len(clusters) THEN 0
    ELSE IF IouRaises(det["bbox"], clusters[k][1]["bbox"]) THEN -1
    ELSE IF IouAtLeast(det["bbox"], clusters[k][1]["bbox"], thr) THEN k
    ELSE FirstMatch(det, clusters, k + 1, thr)

\* the `for det in item_detections` loop: [err, clusters]
RECURSIVE BuildClusters(_, _)
BuildClusters(item_detections, thr) ==
    IF item_detections = <<>> THEN [err |-> FALSE, clusters |-> <<>>]
    ELSE LET n == Len(item_detections)
             prev == BuildClusters(SubSeq(item_detections, 1, n - 1), thr)
             det == item_detections[n]
             k == FirstMatch(det, prev.clusters, 1, thr)
         IN  IF prev.err \/ k = -1
             THEN [err |-> TRUE, clusters |-> prev.clusters]
             ELSE IF k = 0
             THEN [err |-> FALSE, clusters |-> Append(prev.clusters, <<det>>)]
             ELSE [err |-> FALSE,
                   clusters |-> [prev.clusters EXCEPT ![k] = Append(@, det)]]

\* the last member of maximal confidence instead of the first
BestLast(cluster) ==
    LET i == CHOOSE i \in 1..Len(cluster) :
                 /\ \A j \in 1..Len(cluster) :
                        cluster[j]["confidence"] <= cluster[i]["confidence"]
                 /\ \A j \in (i + 1)..Len(cluster) :
                        cluster[j]["confidence"] < cluster[i]["confidence"]
    IN  cluster[i]

\* max(cluster, key=confidence): the first member of maximal confidence
Best(cluster) ==
    LET i == CHOOSE i \in 1..Len(cluster) :
                 /\ \A j \in 1..Len(cluster) :
                        cluster[j]["confidence"] <= cluster[i]["confidence"]
                 /\ \A j \in 1..(i - 1) :
                        cluster[j]["confidence"] < cluster[i]["confidence"]
    IN  cluster[i]

\* the id numbered from 1 instead of from 0
ItemIdOneBased(item_name, idx) == <<item_name, "_">> \o Str(idx + 1)

\* f"{item_name}_{idx}"
ItemId(item_name, idx) == <<item_name, "_">> \o Str(idx)

\* the dict appended to final_items for cluster number idx (0-based)
UniqueItem(item_name, idx, cluster) ==
    [id          |-> ItemId(item_name, idx),
     item        |-> item_name,
     frame       |-> Best(cluster)["frame"],
     confidence  |-> Best(cluster)["confidence"],
     bbox        |-> Best(cluster)["bbox"],
     frames_seen |-> Len(cluster)]

\* the items of one class with the clusters of a single detection dropped
ClassItemsSeenTwice(item_name, clusters) ==
    SelectSeq([i \in 1..Len(clusters) |->
                  UniqueItem(item_name, i - 1, clusters[i])],
              LAMBDA u : u["frames_seen"] >= 2)

\* the items of one class, in cluster order
ClassItems(item_name, clusters) ==
    [i \in 1..Len(clusters) |-> UniqueItem(item_name, i - 1, clusters[i])]

\* the outer `for item_name, item_detections in grouped.items()` loop over
\* the classes keys[1..n]: [err, items]
RECURSIVE TrackClasses(_, _, _, _)
TrackClasses(detections, keys, n, thr) ==
    IF n = 0 THEN [err |-> FALSE, items |-> <<>>]
    ELSE LET prev == TrackClasses(detections, keys, n - 1, thr)
             built == BuildClusters(Grouped(detections, keys[n]), thr)
         IN  IF prev.err \/ built.err
             THEN [err |-> TRUE, items |-> <<>>]
             ELSE [err |-> FALSE,
                   items |-> prev.items \o ClassItems(keys[n], built.clusters)]

\* track_items(detections, iou_threshold): err when the call raises
TrackItems(detections, thr) ==
    TrackClasses(detections, GroupKeys(detections),
                 Len(GroupKeys(detections)), thr)

(***************************************************************************)
(* The environment: frame images and the detections a detector may give.   *)
(***************************************************************************)
\* cv2.imread(frame) is not None: the frame decodes
Decodes(f) == f \in {"f1", "f2"}

\* cv2.imread(frame) for a frame that decodes: the image's size and the
\* metrics of a crop cut from it
ImageOf(f) ==
    IF f = "f1"
    THEN [w |-> 256, h |-> 256, blur |-> 120456, contrast |-> 40123, black |-> 101]
    ELSE [w |-> 256, h |-> 256, blur |-> 50004, contrast |-> 9001, black |-> 702]

Det(f, it, c, b) == [frame |-> f, item |-> it, confidence |-> c, bbox |-> b]

\* the detections a list handed to track_items is made of
DetPool ==
    { Det("f1", "watch", 50, <<0, 0, 80, 160>>),
      Det("f1", "watch", 60, <<40, 0, 120, 160>>),
      Det("f1", "watch", 90, <<20, 0, 100, 160>>),
      Det("f1", "Watch", 90, <<100, 100, 200, 200>>),
      Det("f1", "hat", 90, <<100, 100, 256, 256>>),
      Det("f1", "watch", 50, <<50, 0, 10, 80>>),
      Det("f1", "person", 90, <<0, 0, 200, 256>>),
      Det("fx", "shoe", 60, <<10, 10, 50, 50>>),
      Det("f2", "ring", 50, <<100, 100, 200, 200>>) }

DetLists == UNION { [1..n -> DetPool] : n \in 0..MaxDets }

\* FashionObjectDetector.detect(frames) reads each frame, skips the ones that
\* do not decode, and keeps the boxes of the allowed classes; the boxes of a
\* frame lie within it
Detectable(d, frames) ==
    /\ \E i \in 1..Len(frames) : frames[i] = d["frame"]
    /\ Decodes(d["frame"])
    /\ Lower(d["item"]) \in DETECTION_CLASSES
    /\ 0 <= d["bbox"][1] /\ d["bbox"][1] <= d["bbox"][3]
    /\ d["bbox"][3] <= ImageOf(d["frame"]).w
    /\ 0 <= d["bbox"][2] /\ d["bbox"][2] <= d["bbox"][4]
    /\ d["bbox"][4] <= ImageOf(d["frame"]).h

\* extract_frames(...)["frames"]
FrameLists == {<<>>, <<"f1">>, <<"f1", "f2", "fx">>}

\* the fallback table of price_estimator.py
FallbackRules ==
    [watch    |-> [luxury_range  |-> "$15,000 U+2013 $300,000",
                   regular_range |-> "$500 U+2013 $5,000"],
     shoe     |-> [luxury_range  |-> "$1,000 U+2013 $10,000",
                   regular_range |-> "$150 U+2013 $800"],
     necklace |-> [luxury_range  |-> "$5,000 U+2013 $250,000",
                   regular_range |-> "$200 U+2013 $3,000"],
     ring     |-> [luxury_range  |-> "$8,000 U+2013 $500,000",
                   regular_range |-> "$300 U+2013 $4,000"],
     bracelet |-> [luxury_range  |-> "$3,000 U+2013 $120,000",
                   regular_range |-> "$150 U+2013 $2,500"]]

\* a table json.load may give when models/brand_rules.json exists: the keys
\* are the file's, spelled as its author spelled them
LoadedRules ==
    [Watch |-> [luxury_range  |-> "$20,000 U+2013 $400,000",
                regular_range |-> "$600 U+2013 $6,000"],
     hat   |-> [luxury_range  |-> "$300 U+2013 $2,000",
                regular_range |-> "$20 U+2013 $200"]]

RuleTables == {FallbackRules, LoadedRules}

(***************************************************************************)
(* State.  Python dicts are objects: a list holds references, and a stage  *)
(* that assigns d[k] = v changes the dict every holder of d sees.  The     *)
(* heap is the sequence of all dicts allocated so far; a list of dicts is  *)
(* a sequence of heap indices.                                             *)
(***************************************************************************)
VARIABLES
    entry,         \* "run": orchestrator.run; "stages": the stage functions
                   \* called in run's order by a caller that hands crop_items
                   \* the frame under the key crop_items reads; "geometry":
                   \* one geometry function called on its own;
                   \* "filter_crops": run's steps from filter_crops on;
                   \* "render_overlay": render_overlay called on its own;
                   \* "track_items": track_items followed pass by pass
    pc,            \* the next step of the run ("import": orchestrator.py is
                   \* being imported; "download": run's first step), "done"
                   \* or "error"
    BRAND_RULES,   \* price_estimator.BRAND_RULES, set at import
    FACE_DIR,      \* the attribute FACE_DIR of src.config.paths when
                   \* orchestrator.py is imported: "undefined" as paths.py
                   \* stands, or a directory the importing process has set
    isOpened,      \* cap.isOpened() in extract_frames: cv2 can open the
                   \* video file
    video,         \* what download_video meets at the url: the metadata
                   \* yt_dlp returns (info), whether RAW_VIDEO_DIR holds a
                   \* file of that id (cached), and whether a download
                   \* leaves the file it names (downloaded)
    heap,          \* the dicts allocated so far
    frames,        \* frame_data["frames"]
    detections,    \* the list handed to track_items (values: never mutated)
    unique_items,  \* track_items' result
    tracked_items, \* the list crop_items was called with
    crops,         \* crop_items' result
    crop_src,      \* history: crop_src[i] is the position in tracked_items
                   \* of the item crops[i] was cut from
    disk,          \* the crop images written: crop_path -> image
    good_crops,    \* filter_crops' accepted list
    rejected,      \* filter_crops' rejected list
    priced_items,  \* estimate_prices' result
    clips,         \* the overlay clips render_overlay composes (values)
    result,        \* what the run returned: "None", a path, or "raised"
    geom,          \* a direct call of a geometry function: its name, its
                   \* arguments and, once it returned, its value
    track          \* the locals of a call of track_items that is followed
                   \* loop pass by loop pass

vars == <<entry, pc, BRAND_RULES, FACE_DIR, isOpened, video, heap, frames,
          detections, unique_items, tracked_items, crops, crop_src, disk,
          good_crops, rejected, priced_items, clips, result, geom, track>>

\* the dicts a list of references holds
Deref(h, refs) == [i \in 1..Len(refs) |-> h[refs[i]]]

\* the references of n dicts allocated on heap h
NewRefs(h, n) == [i \in 1..n |-> Len(h) + i]

(***************************************************************************)
(* download_video and the videos it may meet.                              *)
(***************************************************************************)
\* the metadata of a video: a dict with the keys yt_dlp found; duration in
\* seconds; height as [int |-> is it a Python int, p |-> its value]
Info(id, duration, height) ==
    [id |-> id, duration |-> duration, height |-> [int |-> TRUE, p |-> height]]

\* a video within the limits whose file is in RAW_VIDEO_DIR already
CachedVideo ==
    [info |-> Info("video", 60, 1080), cached |-> TRUE, downloaded |-> FALSE]

\* the videos of the model: within the limits (cached; downloaded; the
\* download leaving no file), too long, at both limits, too low, without
\* an id, without duration and height, and with a height that is a float
VideoPool ==
    { CachedVideo,
      [info |-> Info("video", 60, 1080),
       cached |-> FALSE, downloaded |-> TRUE],
      [info |-> Info("video", 60, 1080),
       cached |-> FALSE, downloaded |-> FALSE],
      [info |-> Info("video", 120, 1080),
       cached |-> TRUE, downloaded |-> FALSE],
      [info |-> Info("video", 90, 720),
       cached |-> TRUE, downloaded |-> FALSE],
      [info |-> Info("video", 60, 480),
       cached |-> TRUE, downloaded |-> FALSE],
      [info |-> [duration |-> 60, height |-> [int |-> TRUE, p |-> 1080]],
       cached |-> TRUE, downloaded |-> FALSE],
      [info |-> [id |-> "video"], cached |-> TRUE, downloaded |-> FALSE],
      [info |-> [id |-> "video", duration |-> 60,
                 height |-> [int |-> FALSE, p |-> 480]],
       cached |-> TRUE, downloaded |-> FALSE] }

\* _validate_video_info raises ValueError
ValidateVideoInfoRaises(info) ==
    \/ Has(info, "duration") /\ info["duration"] > MAX_VIDEO_DURATION_SEC
    \/ /\ Has(info, "height")
       /\ info["height"].int
       /\ info["height"].p < MIN_VIDEO_RESOLUTION

\* str(info.get("id") or "")
VideoId(info) == IF Has(info, "id") THEN info["id"] ELSE ""

\* download_video raises: RuntimeError for no video id, ValueError from
\* _validate_video_info, RuntimeError when the file is neither cached nor
\* there after the download
DownloadVideoRaises(v) ==
    \/ VideoId(v.info) = ""
    \/ ValidateVideoInfoRaises(v.info)
    \/ ~v.cached /\ ~v.downloaded

\* the locals of track_items before its first statement
TrackIdle ==
    [names       |-> <<>>,  \* the keys of `grouped`, in insertion order
     class       |-> 1,     \* the position in names of item_name
     next        |-> 1,     \* the position in item_detections of the next det
     clusters    |-> <<>>,  \* `clusters`: the clusters of item_name so far
     finished    |-> <<>>,  \* history: the clusters final_items was built
                            \* from, in its order
     final_items |-> <<>>]

Init ==
    /\ entry \in {"run", "stages"}
    /\ BRAND_RULES \in RuleTables
    /\ heap = <<>>
    /\ frames = <<>>
    /\ IF entry = "run"
       THEN /\ pc = "import"
            /\ detections = <<>>
            /\ FACE_DIR \in {"undefined", "faces"}
            /\ isOpened \in BOOLEAN
            /\ video \in VideoPool
       ELSE /\ pc = "track"
            /\ detections \in DetLists
            /\ FACE_DIR = "undefined"
            /\ isOpened = TRUE
            /\ video = CachedVideo
    /\ unique_items = <<>>
    /\ tracked_items = <<>>
    /\ crops = <<>>
    /\ crop_src = <<>>
    /\ disk = <<>>
    /\ good_crops = <<>>
    /\ rejected = <<>>
    /\ priced_items = <<>>
    /\ clips = <<>>
    /\ result = "running"
    /\ track = TrackIdle
    /\ geom = [fn |-> "none"]

\* an empty result answered by raising instead of returning None
StopRaising == pc' = "error" /\ result' = "raised"

\* run() returns None
Stop == pc' = "done" /\ result' = "None"

\* an exception leaves run()
Raise == pc' = "error" /\ result' = "raised"

(***************************************************************************)
(* The import of orchestrator.py, which defines run.                       *)
(***************************************************************************)
\* `from src.config.paths import FACE_DIR` (line 21): paths.py defines no
\* FACE_DIR, so the import ends in ImportError and run is never defined,
\* unless the importing process has set the attribute on src.config.paths
Import ==
    /\ pc = "import"
    /\ IF FACE_DIR = "undefined" THEN Raise
       ELSE pc' = "download" /\ result' = result
    /\ UNCHANGED <<track, geom, entry, BRAND_RULES, FACE_DIR, isOpened, video,
                   heap, frames, detections, unique_items, tracked_items,
                   crops, crop_src, disk, good_crops, rejected, priced_items,
                   clips>>

(***************************************************************************)
(* orchestrator.run step 1: download_video                                 *)
(***************************************************************************)
\* video_meta = download_video(url): run lets its exceptions through
Download ==
    /\ pc = "download"
    /\ IF DownloadVideoRaises(video) THEN Raise
       ELSE pc' = "extract" /\ result' = result
    /\ UNCHANGED <<track, geom, entry, BRAND_RULES, FACE_DIR, isOpened, video,
                   heap, frames, detections, unique_items, tracked_items,
                   crops, crop_src, disk, good_crops, rejected, priced_items,
                   clips>>

(***************************************************************************)
(* orchestrator.run steps 2 and 3: extract_frames and detect               *)
(***************************************************************************)
\* extract_frames raises RuntimeError when the video does not open, and run
\* lets it through; frame_data is then never bound
Extract ==
    /\ pc = "extract"
    /\ IF ~isOpened THEN Raise /\ frames' = frames
       ELSE \E fs \in FrameLists :
               /\ frames' = fs
               /\ IF fs = <<>> THEN Stop ELSE pc' = "detect" /\ result' = result
    /\ UNCHANGED <<track, geom, entry, BRAND_RULES, FACE_DIR, isOpened, video,
                   heap, detections, unique_items, tracked_items, crops,
                   crop_src, disk, good_crops, rejected, priced_items, clips>>

Detect ==
    /\ pc = "detect"
    /\ \E ds \in DetLists :
          /\ \A i \in 1..Len(ds) : Detectable(ds[i], frames)
          /\ detections' = ds
          /\ IF ds = <<>> THEN Stop ELSE pc' = "track" /\ result' = result
    /\ UNCHANGED <<track, geom, entry, BRAND_RULES, FACE_DIR, isOpened, video,
                   heap, frames, unique_items, tracked_items, crops, crop_src,
                   disk, good_crops, rejected, priced_items, clips>>

(***************************************************************************)
(* orchestrator.run step 4: track_items                                    *)
(***************************************************************************)
Track ==
    /\ pc = "track"
    /\ LET r == TrackItems(detections, IOU_THRESHOLD)
       IN  IF r.err
           THEN Raise /\ UNCHANGED <<heap, unique_items>>
           ELSE /\ heap' = heap \o r.items
                /\ unique_items' = NewRefs(heap, Len(r.items))
                /\ IF r.items = <<>> THEN Stop
                   ELSE pc' = "face" /\ result' = result
    /\ UNCHANGED <<track, geom, entry, BRAND_RULES, FACE_DIR, isOpened, video,
                   frames, detections, tracked_items, crops, crop_src, disk,
                   good_crops, rejected, priced_items, clips>>

(***************************************************************************)
(* orchestrator.run step 4.5: face_cropper.crop_face_from_person           *)
(***************************************************************************)
\* crop_face_from_person(frame_path, person_bbox, output_path) returns
\* output_path (TRUE) or None (FALSE)
CropFaceFromPerson(frame_path, person_bbox) ==
    LET img == ImageOf(frame_path)
        pw == person_bbox[3] - person_bbox[1]
        ph == person_bbox[4] - person_bbox[2]
        face_h == TruncDiv(ph * 28, 100)
        y1 == person_bbox[2] + TruncDiv(ph * 5, 100)
        y2 == y1 + face_h
        x1 == person_bbox[1] + TruncDiv(pw * 15, 100)
        x2 == person_bbox[3] - TruncDiv(pw * 15, 100)
    IN  /\ Decodes(frame_path)
        /\ ~(Min(img.w, x2) <= Max(0, x1) \/ Min(img.h, y2) <= Max(0, y1))

\* the file name in FACE_DIR / f"{item['id']}_face.jpg"; under entry "run"
\* the step is reached only with FACE_DIR defined (Import), under entry
\* "stages" the directory is the caller's
FacePath(id) == id \o <<"_face.jpg">>

\* the body of the step-4.5 loop for one item
WithFace(item) ==
    IF ~Has(item, "item") \/ item["item"] # "person" THEN item
    ELSE IF CropFaceFromPerson(item["frame"], item["bbox"])
    THEN Put(item, "face_crop", FacePath(item["id"]))
    ELSE item

Face ==
    /\ pc = "face"
    /\ heap' = [r \in 1..Len(heap) |->
                   IF \E i \in 1..Len(unique_items) : unique_items[i] = r
                   THEN WithFace(heap[r]) ELSE heap[r]]
    /\ pc' = "crop"
    /\ UNCHANGED <<track, geom, entry, BRAND_RULES, FACE_DIR, isOpened, video,
                   frames, detections, unique_items, tracked_items, crops,
                   crop_src, disk, good_crops, rejected, priced_items, clips,
                   result>>

(***************************************************************************)
(* orchestrator.run step 5: cropper.crop_items                             *)
(***************************************************************************)
\* what the caller of entry "stages" hands to crop_items: the tracked dict
\* with its frame under "best_frame"
Adapted(item) ==
    [k \in ((DOMAIN item) \ {"frame"}) \cup {"best_frame"} |->
        IF k = "best_frame" THEN item["frame"] ELSE item[k]]

\* the length of a[i:j] for a of length n (i and j may be negative or
\* beyond n)
SliceIndex(i, n) == IF i < 0 THEN Max(0, i + n) ELSE Min(i, n)
SliceLen(i, j, n) == Max(0, SliceIndex(j, n) - SliceIndex(i, n))

\* f"{item['item']}_{idx:02d}_{frame_path.stem}.jpg"
CropName(item, idx) ==
    <<item["item"], "_">> \o Fmt02d(idx) \o <<"_", item["best_frame"], ".jpg">>

\* the image cv2.imwrite stores for the crop image[y1:y2, x1:x2]
CropImage(image, box) ==
    [w        |-> SliceLen(box[1], box[3], image.w),
     h        |-> SliceLen(box[2], box[4], image.h),
     blur     |-> image.blur,
     contrast |-> image.contrast,
     black    |-> image.black]

\* the dict crop_items appends for one item
CroppedItem(item, crop_path, box) ==
    [item       |-> item["item"],
     confidence |-> item["confidence"],
     crop_path  |-> crop_path,
     bbox       |-> box]

\* the loop of crop_items over the first n items: [err, items, disk, src];
\* src[i] is the position in `tracked` of the item crop i was cut from
RECURSIVE CropLoop(_, _, _)
CropLoop(tracked, n, d0) ==
    IF n = 0 THEN [err |-> FALSE, items |-> <<>>, disk |-> d0, src |-> <<>>]
    ELSE LET prev == CropLoop(tracked, n - 1, d0)
             item == tracked[n]
         IN  IF prev.err THEN prev
             ELSE IF "best_frame" \notin DOMAIN item \/ "bbox" \notin DOMAIN item
             THEN [prev EXCEPT !.err = TRUE]
             ELSE LET image == ImageOf(item["best_frame"])
                  IN  IF ~Decodes(item["best_frame"]) THEN prev
                      ELSE LET box == ExpandBbox(item["bbox"], image.w, image.h,
                                                 PADDING_RATIO)
                               crop == CropImage(image, box)
                               crop_path == CropName(item, n - 1)
                           IN  IF crop.w * crop.h = 0 THEN prev
                               ELSE [err   |-> FALSE,
                                     items |-> Append(prev.items,
                                                 CroppedItem(item, crop_path, box)),
                                     disk  |-> Put(prev.disk, crop_path, crop),
                                     src   |-> Append(prev.src, n)]

\* crop_items(tracked_items, video_id)
CropItems(tracked, d0) == CropLoop(tracked, Len(tracked), d0)

Crop ==
    /\ pc = "crop"
    /\ LET tracked == IF entry = "run" THEN Deref(heap, unique_items)
                      ELSE [i \in 1..Len(unique_items) |->
                               Adapted(heap[unique_items[i]])]
           \* under "run" the list is unique_items itself; under "stages"
           \* the caller's dicts are new ones
           h1 == IF entry = "run" THEN heap ELSE heap \o tracked
           refs == IF entry = "run" THEN unique_items
                   ELSE NewRefs(heap, Len(tracked))
           r == CropItems(tracked, disk)
       IN  /\ tracked_items' = refs
           /\ disk' = r.disk
           /\ crop_src' = r.src
           /\ IF r.err
              THEN /\ Raise
                   /\ heap' = h1
                   /\ crops' = crops
              ELSE /\ heap' = h1 \o r.items
                   /\ crops' = NewRefs(h1, Len(r.items))
                   /\ IF r.items = <<>> THEN Stop
                      ELSE pc' = "filter" /\ result' = result
    /\ UNCHANGED <<track, geom, entry, BRAND_RULES, FACE_DIR, isOpened, video,
                   frames, detections, unique_items, good_crops, rejected,
                   priced_items, clips>>

(***************************************************************************)
(* orchestrator.run step 6: quality_check.filter_crops                     *)
(***************************************************************************)
\* cv2.imread(str(crop_path)) is not None
Readable(d, crop_path) == crop_path \in DOMAIN d

\* round(x, 2): from thousandths to hundredths (no metric of the model lies
\* halfway)
Round2(x) == (x + 5) \div 10

\* the checks with the darkness check moved before the size check
RejectReasonDarkFirst(item, d) ==
    LET image == d[item["crop_path"]]
    IN  IF ~Readable(d, item["crop_path"]) THEN "unreadable_image"
        ELSE IF image.black > MAX_BLACK_RATIO THEN "mostly_dark"
        ELSE IF image.w < MIN_WIDTH \/ image.h < MIN_HEIGHT
                \/ image.h * image.w < MIN_AREA THEN "too_small"
        ELSE IF image.blur < BLUR_THRESHOLD THEN "too_blurry"
        ELSE IF image.contrast < MIN_CONTRAST_STD THEN "low_contrast"
        ELSE "None"

\* the reason the loop body rejects the item with, "None" when it accepts
RejectReason(item, d) ==
    LET image == d[item["crop_path"]]
    IN  IF ~Readable(d, item["crop_path"]) THEN "unreadable_image"
        ELSE IF image.w < MIN_WIDTH \/ image.h < MIN_HEIGHT
                \/ image.h * image.w < MIN_AREA THEN "too_small"
        ELSE IF image.blur < BLUR_THRESHOLD THEN "too_blurry"
        ELSE IF image.contrast < MIN_CONTRAST_STD THEN "low_contrast"
        ELSE IF image.black > MAX_BLACK_RATIO THEN "mostly_dark"
        ELSE "None"

\* the item dict as the loop body leaves it
Filtered(item, d) ==
    LET image == d[item["crop_path"]]
        reason == RejectReason(item, d)
    IN  CASE reason = "unreadable_image" -> Put(item, "reason", reason)
          [] reason = "too_small" -> Put(item, "reason", reason)
          [] reason = "too_blurry" ->
                Put(Put(item, "reason", reason), "blur_score", Round2(image.blur))
          [] reason = "low_contrast" ->
                Put(Put(item, "reason", reason), "contrast", Round2(image.contrast))
          [] reason = "mostly_dark" ->
                Put(Put(item, "reason", reason), "black_ratio", Round2(image.black))
          [] OTHER ->
                Put(item, "quality", [blur        |-> Round2(image.blur),
                                      contrast    |-> Round2(image.contrast),
                                      black_ratio |-> Round2(image.black)])

\* the `rejected` list with the unreadable crops left out of it
RejectedCropsDropUnreadable(h, refs, d) ==
    SelectSeq(refs, LAMBDA r :
        RejectReason(h[r], d) \notin {"None", "unreadable_image"})

\* the `accepted` list: the crops, in input order, the loop body appends to it
AcceptedCrops(h, refs, d) ==
    SelectSeq(refs, LAMBDA r : RejectReason(h[r], d) = "None")

\* the `rejected` list: the crops, in input order, the loop body appends to it
RejectedCrops(h, refs, d) ==
    SelectSeq(refs, LAMBDA r : RejectReason(h[r], d) # "None")

Filter ==
    /\ pc = "filter"
    /\ heap' = [r \in 1..Len(heap) |->
                   IF \E i \in 1..Len(crops) : crops[i] = r
                   THEN Filtered(heap[r], disk) ELSE heap[r]]
    /\ good_crops' = AcceptedCrops(heap, crops, disk)
    /\ rejected' = RejectedCrops(heap, crops, disk)
    /\ IF AcceptedCrops(heap, crops, disk) = <<>> THEN Stop
       ELSE pc' = "glasses" /\ result' = result
    /\ UNCHANGED <<track, geom, entry, BRAND_RULES, FACE_DIR, isOpened, video,
                   frames, detections, unique_items, tracked_items, crops,
                   crop_src, disk, priced_items, clips>>

(***************************************************************************)
(* orchestrator.run step 6.5: glasses_classifier.classify_glasses          *)
(***************************************************************************)
\* the accepted dicts that hold a face crop
WithFaceCrop(h, refs) ==
    {r \in {refs[i] : i \in 1..Len(refs)} : Has(h[r], "face_crop")}

Glasses ==
    /\ pc = "glasses"
    /\ \E label \in [WithFaceCrop(heap, good_crops) -> {"glasses", "no_glasses"}] :
          heap' = [r \in 1..Len(heap) |->
                      IF r \in DOMAIN label
                      THEN Put(heap[r], "glasses", label[r]) ELSE heap[r]]
    /\ pc' = "price"
    /\ UNCHANGED <<track, geom, entry, BRAND_RULES, FACE_DIR, isOpened, video,
                   frames, detections, unique_items, tracked_items, crops,
                   crop_src, disk, good_crops, rejected, priced_items, clips,
                   result>>

(***************************************************************************)
(* orchestrator.run step 7: price_estimator.estimate_prices                *)
(***************************************************************************)
\* _estimate_price_for_item with `>` for `>=`
EstimatePriceStrict(rules_table, item_type, confidence) ==
    LET rules == rules_table[Lower(item_type)]
        is_luxury == confidence > PRICE_CONFIDENCE_MIN
    IN  IF ~Has(rules_table, Lower(item_type))
        THEN [price_range |-> DEFAULT_PRICE_RANGE,
              luxury      |-> FALSE,
              reason      |-> "no_rules_for_item"]
        ELSE [price_range |-> IF is_luxury THEN rules["luxury_range"]
                              ELSE rules["regular_range"],
              luxury      |-> is_luxury,
              reason      |-> IF is_luxury THEN "high_confidence_detection"
                              ELSE "low_confidence_detection"]

\* _estimate_price_for_item with the two ranges of a rule taken for one
\* another
EstimatePriceSwappedRanges(rules_table, item_type, confidence) ==
    LET rules == rules_table[Lower(item_type)]
        is_luxury == confidence >= PRICE_CONFIDENCE_MIN
    IN  IF ~Has(rules_table, Lower(item_type))
        THEN [price_range |-> DEFAULT_PRICE_RANGE,
              luxury      |-> FALSE,
              reason      |-> "no_rules_for_item"]
        ELSE [price_range |-> IF is_luxury THEN rules["regular_range"]
                              ELSE rules["luxury_range"],
              luxury      |-> is_luxury,
              reason      |-> IF is_luxury THEN "high_confidence_detection"
                              ELSE "low_confidence_detection"]

\* _estimate_price_for_item(item_type, confidence) under the rule table
\* BRAND_RULES holds
EstimatePriceForItem(rules_table, item_type, confidence) ==
    LET rules == rules_table[Lower(item_type)]
        is_luxury == confidence >= PRICE_CONFIDENCE_MIN
    IN  IF ~Has(rules_table, Lower(item_type))
        THEN [price_range |-> DEFAULT_PRICE_RANGE,
              luxury      |-> FALSE,
              reason      |-> "no_rules_for_item"]
        ELSE [price_range |-> IF is_luxury THEN rules["luxury_range"]
                              ELSE rules["regular_range"],
              luxury      |-> is_luxury,
              reason      |-> IF is_luxury THEN "high_confidence_detection"
                              ELSE "low_confidence_detection"]

\* the enriched_item dict of estimate_prices' loop body
Enriched(rules_table, item) ==
    LET estimate == EstimatePriceForItem(rules_table, item["item"],
                                         item["confidence"])
    IN  Put(Put(Put(item, "price_range", estimate["price_range"]),
                "luxury", estimate["luxury"]),
            "estimation_reason", estimate["reason"])

\* estimate_prices leaving out the items whose category has no rule
EstimatePricesSkipUnruled(rules_table, quality_items) ==
    LET ruled == SelectSeq(quality_items,
                           LAMBDA item : Has(rules_table, Lower(item["item"])))
    IN  [i \in 1..Len(ruled) |-> Enriched(rules_table, ruled[i])]

\* estimate_prices(quality_items), on the dicts themselves
EstimatePrices(rules_table, quality_items) ==
    [i \in 1..Len(quality_items) |-> Enriched(rules_table, quality_items[i])]

Price ==
    /\ pc = "price"
    /\ LET enriched == EstimatePrices(BRAND_RULES, Deref(heap, good_crops))
       IN  /\ heap' = heap \o enriched
           /\ priced_items' = NewRefs(heap, Len(enriched))
    /\ \E skip_overlay \in BOOLEAN :
          IF skip_overlay THEN Stop ELSE pc' = "overlay" /\ result' = result
    /\ UNCHANGED <<track, geom, entry, BRAND_RULES, FACE_DIR, isOpened, video,
                   frames, detections, unique_items, tracked_items, crops,
                   crop_src, disk, good_crops, rejected, clips>>

(***************************************************************************)
(* orchestrator.run step 8: overlay.render_overlay                         *)
(***************************************************************************)
\* video.size: the frames are the video's
VideoSize == <<ImageOf("f1").w, ImageOf("f1").h>>

\* _price_label(item)
PriceLabel(item) ==
    IF "price_range" \in DOMAIN item THEN item["price_range"] ELSE "Unknown price"

\* _bbox_center(bbox)
BboxCenter(bbox) == <<(bbox[1] + bbox[3]) \div 2, (bbox[2] + bbox[4]) \div 2>>

\* Python float arithmetic on the times of the overlay: multiples of 2^-52
\* below 2^6, as limbs of 20 bits (the numbers TLC computes with stay below
\* 2^31)
LimbBase == 1048576

\* the limbs of high * 2^40 + middle * 2^20 + low, carries propagated
Limbs(high, middle, low) ==
    <<high + (middle + low \div LimbBase) \div LimbBase,
      (middle + low \div LimbBase) % LimbBase,
      low % LimbBase>>

\* the number of binary digits of n
RECURSIVE BitLength(_)
BitLength(n) == IF n = 0 THEN 0 ELSE 1 + BitLength(n \div 2)

RECURSIVE PowerOfTwo(_)
PowerOfTwo(k) == IF k = 0 THEN 1 ELSE 2 * PowerOfTwo(k - 1)

\* the result of a float operation whose exact value is x: x rounded to 53
\* significant binary digits, ties to the even neighbour
RoundToDouble(x) ==
    LET digits == IF x[1] = 0 THEN 0 ELSE 40 + BitLength(x[1])
    IN  IF digits <= 53 THEN x
        ELSE LET unit == PowerOfTwo(digits - 53)
                 rest == x[3] % unit
                 kept == x[3] - rest
                 up   == \/ 2 * rest > unit
                         \/ 2 * rest = unit /\ (x[3] \div unit) % 2 = 1
             IN  Limbs(x[1], x[2], IF up THEN kept + unit ELSE kept)

\* the float of a literal of t tenths, 1.0 <= t / 10 < 2.0: the double
\* nearest to t / 10, that is t * 2^52 / 10 rounded to a whole number
FloatOfTenths(t) ==
    LET high   == (t * 4096) \div 10
        r1     == (t * 4096) % 10
        middle == (r1 * LimbBase) \div 10
        r2     == (r1 * LimbBase) % 10
        low    == (r2 * LimbBase) \div 10
        r3     == (r2 * LimbBase) % 10
        up     == 2 * r3 > 10 \/ (2 * r3 = 10 /\ low % 2 = 1)
    IN  Limbs(high, middle, IF up THEN low + 1 ELSE low)

\* n * x for an int n (0 <= n < 32) and a float x
FloatTimesInt(n, x) == RoundToDouble(Limbs(n * x[1], n * x[2], n * x[3]))

\* x + y for floats x and y
FloatPlus(x, y) == RoundToDouble(Limbs(x[1] + y[1], x[2] + y[2], x[3] + y[3]))

\* x < y for floats x and y
FloatLess(x, y) ==
    \/ x[1] < y[1]
    \/ x[1] = y[1] /\ x[2] < y[2]
    \/ x[1] = y[1] /\ x[2] = y[2] /\ x[3] < y[3]

\* the float ITEM_DISPLAY_SECONDS holds
DisplaySeconds == FloatOfTenths(ITEM_DISPLAY_SECONDS)

\* what render_overlay and _render_overlay_frame make for priced item number
\* idx (0-based): the clip's time window, and what the frame draws
OverlayClip(idx, item) ==
    [start     |-> FloatTimesInt(idx, DisplaySeconds),
     end       |-> FloatPlus(FloatTimesInt(idx, DisplaySeconds), DisplaySeconds),
     label     |-> PriceLabel(item),
     box_x     |-> TruncDiv(VideoSize[1] * 65, 100),
     box_y     |-> TruncDiv(VideoSize[2] * 20, 100),
     line_from |-> BboxCenter(item["bbox"]),
     highlight |-> item["bbox"]]

\* f"{video_id}_priced.mp4"
OutPath == <<"video", "_priced.mp4">>

Overlay ==
    /\ pc = "overlay"
    /\ clips' = [i \in 1..Len(priced_items) |->
                    OverlayClip(i - 1, heap[priced_items[i]])]
    /\ pc' = "done"
    /\ result' = OutPath
    /\ UNCHANGED <<track, geom, entry, BRAND_RULES, FACE_DIR, isOpened, video,
                   heap, frames, detections, unique_items, tracked_items,
                   crops, crop_src, disk, good_crops, rejected, priced_items>>

Next ==
    \/ Import
    \/ Download
    \/ Extract
    \/ Detect
    \/ Track
    \/ Face
    \/ Crop
    \/ Filter
    \/ Glasses
    \/ Price
    \/ Overlay

Spec == Init /\ [][Next]_vars

(***************************************************************************)
(* The geometry functions called on their own, on a grid of boxes that     *)
(* holds malformed boxes (x1 > x2) and boxes outside the image.            *)
(***************************************************************************)
GridCoords == {20 * k : k \in -1..MaxCoord}
GridBoxes == GridCoords \X GridCoords \X GridCoords \X GridCoords
GridSizes == {<<40, 40>>, <<60, 60>>}
\* padding ratios, in hundredths
GridPaddings == {-15, 0, 15, 50}
\* the boxes handed to _iou: well-formed, of zero area and malformed ones
IouCoords == {10 * k : k \in 0..MaxIouCoord}
IouBoxes == IouCoords \X IouCoords \X IouCoords \X IouCoords

GeomInit ==
    /\ entry = "geometry"
    /\ FACE_DIR = "undefined"
    /\ isOpened = TRUE
    /\ video = CachedVideo
    /\ pc = "call"
    /\ BRAND_RULES = FallbackRules
    /\ heap = <<>>
    /\ frames = <<>>
    /\ detections = <<>>
    /\ unique_items = <<>>
    /\ tracked_items = <<>>
    /\ crops = <<>>
    /\ crop_src = <<>>
    /\ disk = <<>>
    /\ good_crops = <<>>
    /\ rejected = <<>>
    /\ priced_items = <<>>
    /\ clips = <<>>
    /\ result = "running"
    /\ track = TrackIdle
    /\ \/ \E bbox \in GridBoxes, size \in GridSizes,
                padding_ratio \in GridPaddings :
             geom = [fn |-> "_expand_bbox", bbox |-> bbox, img_width |-> size[1],
                     img_height |-> size[2], padding_ratio |-> padding_ratio]
       \/ \E box1 \in IouBoxes, box2 \in IouBoxes :
             geom = [fn |-> "_iou", box1 |-> box1, box2 |-> box2]

ExpandCall ==
    /\ pc = "call"
    /\ geom.fn = "_expand_bbox"
    /\ geom' = Put(geom, "ret", ExpandBbox(geom.bbox, geom.img_width,
                                           geom.img_height, geom.padding_ratio))
    /\ pc' = "returned"
    /\ UNCHANGED <<track, entry, BRAND_RULES, FACE_DIR, isOpened, video, heap,
                   frames, detections, unique_items, tracked_items, crops,
                   crop_src, disk, good_crops, rejected, priced_items, clips,
                   result>>

\* _iou(box1, box2) returns its value, or raises
IouCall ==
    /\ pc = "call"
    /\ geom.fn = "_iou"
    /\ geom' = IF IouRaises(geom.box1, geom.box2)
               THEN Put(geom, "raised", "ZeroDivisionError")
               ELSE Put(geom, "ret", Iou(geom.box1, geom.box2))
    /\ pc' = "returned"
    /\ UNCHANGED <<track, entry, BRAND_RULES, FACE_DIR, isOpened, video, heap,
                   frames, detections, unique_items, tracked_items, crops,
                   crop_src, disk, good_crops, rejected, priced_items, clips,
                   result>>

GeomNext ==
    \/ ExpandCall
    \/ IouCall

SpecGeom == GeomInit /\ [][GeomNext]_vars

(***************************************************************************)
(* filter_crops called on its own, as run() calls it and then goes on, on  *)
(* a list of crops whose files hold images of every kind the gate tells    *)
(* apart.                                                                  *)
(***************************************************************************)
\* the crop images on disk, by file stem; two of them fail two checks, one
\* lies exactly on every threshold
GateImages ==
    [ok          |-> [w |-> 80, h |-> 80, blur |-> 120456, contrast |-> 40123,
                      black |-> 101],
     edge        |-> [w |-> 64, h |-> 64, blur |-> 90000, contrast |-> 15000,
                      black |-> 600],
     small_dark  |-> [w |-> 40, h |-> 80, blur |-> 120456, contrast |-> 40123,
                      black |-> 702],
     short       |-> [w |-> 80, h |-> 63, blur |-> 120456, contrast |-> 40123,
                      black |-> 101],
     blurry_flat |-> [w |-> 80, h |-> 80, blur |-> 89999, contrast |-> 9001,
                      black |-> 101],
     flat_dark   |-> [w |-> 80, h |-> 80, blur |-> 120456, contrast |-> 14999,
                      black |-> 702],
     dark        |-> [w |-> 80, h |-> 80, blur |-> 120456, contrast |-> 40123,
                      black |-> 601]]

\* the files cv2.imread finds
GateDisk ==
    [crop_path \in {<<stem, ".jpg">> : stem \in DOMAIN GateImages} |->
        GateImages[crop_path[1]]]

\* a dict as crop_items builds it
GateCrop(stem, item, confidence) ==
    [item       |-> item,
     confidence |-> confidence,
     crop_path  |-> <<stem, ".jpg">>,
     bbox       |-> <<10, 10, 90, 90>>]

\* the dicts a list handed to filter_crops is made of; the file of the last
\* one is not on disk
GateCrops ==
    { GateCrop("ok", "watch", 75),
      GateCrop("ok", "watch", 30),
      GateCrop("ok", "shoe", 60),
      GateCrop("edge", "hat", 90),
      GateCrop("small_dark", "watch", 30),
      GateCrop("short", "ring", 90),
      GateCrop("blurry_flat", "ring", 50),
      GateCrop("flat_dark", "shoe", 60),
      GateCrop("dark", "Watch", 90),
      GateCrop("missing", "watch", 60) }

GateLists == UNION { [1..n -> GateCrops] : n \in 0..MaxCrops }

GateInit ==
    /\ entry = "filter_crops"
    /\ FACE_DIR = "undefined"
    /\ isOpened = TRUE
    /\ video = CachedVideo
    /\ pc = "filter"
    /\ BRAND_RULES \in RuleTables
    /\ \E cropped_items \in GateLists :
          /\ heap = cropped_items
          /\ crops = NewRefs(<<>>, Len(cropped_items))
    /\ disk = GateDisk
    /\ frames = <<>>
    /\ detections = <<>>
    /\ unique_items = <<>>
    /\ tracked_items = <<>>
    /\ crop_src = <<>>
    /\ good_crops = <<>>
    /\ rejected = <<>>
    /\ priced_items = <<>>
    /\ clips = <<>>
    /\ result = "running"
    /\ track = TrackIdle
    /\ geom = [fn |-> "none"]

GateNext ==
    \/ Filter
    \/ Glasses
    \/ Price
    \/ Overlay

SpecGate == GateInit /\ [][GateNext]_vars

(***************************************************************************)
(* render_overlay called on its own, on lists of priced items long enough  *)
(* for the rounding of the float times to show.                            *)
(***************************************************************************)
\* the dicts a list handed to render_overlay is made of
SchedItems ==
    { Enriched(FallbackRules, Put(GateCrop("ok", "watch", 75), "bbox",
                                  <<20, 40, 100, 200>>)),
      Enriched(FallbackRules, GateCrop("edge", "hat", 90)) }

SchedLists == UNION { [1..n -> SchedItems] : n \in 0..MaxItems }

SchedInit ==
    /\ entry = "render_overlay"
    /\ FACE_DIR = "undefined"
    /\ isOpened = TRUE
    /\ video = CachedVideo
    /\ pc = "overlay"
    /\ BRAND_RULES = FallbackRules
    /\ \E items \in SchedLists :
          /\ heap = items
          /\ priced_items = NewRefs(<<>>, Len(items))
    /\ disk = GateDisk
    /\ frames = <<>>
    /\ detections = <<>>
    /\ unique_items = <<>>
    /\ tracked_items = <<>>
    /\ crops = <<>>
    /\ crop_src = <<>>
    /\ good_crops = <<>>
    /\ rejected = <<>>
    /\ clips = <<>>
    /\ result = "running"
    /\ track = TrackIdle
    /\ geom = [fn |-> "none"]

SchedNext == Overlay

SpecSched == SchedInit /\ [][SchedNext]_vars

(***************************************************************************)
(* track_items followed pass by pass of its loops, its clusters in view.   *)
(***************************************************************************)
\* the detections a list followed this way is made of: a chain of three
\* overlapping boxes of which only neighbours reach the threshold, the
\* spec's dedup example, a detection that ties with one of the example's
\* in confidence, a box of another class on top of one of them, and a
\* malformed box
TrackPool ==
    { Det("f1", "watch", 50, <<0, 0, 80, 160>>),
      Det("f1", "watch", 60, <<40, 0, 120, 160>>),
      Det("f1", "watch", 90, <<20, 0, 100, 160>>),
      Det("f1", "watch", 70, <<10, 10, 50, 50>>),
      Det("f2", "watch", 90, <<12, 11, 49, 52>>),
      Det("f1", "watch", 60, <<200, 200, 240, 240>>),
      Det("f2", "watch", 70, <<12, 11, 49, 52>>),
      Det("f1", "hat", 70, <<10, 10, 50, 50>>),
      Det("f1", "watch", 50, <<50, 0, 10, 80>>) }

TrackLists == UNION { [1..n -> TrackPool] : n \in 0..MaxDets }

TrackInit ==
    /\ entry = "track_items"
    /\ FACE_DIR = "undefined"
    /\ isOpened = TRUE
    /\ video = CachedVideo
    /\ pc = "group"
    /\ BRAND_RULES = FallbackRules
    /\ detections \in TrackLists
    /\ heap = <<>>
    /\ frames = <<>>
    /\ unique_items = <<>>
    /\ tracked_items = <<>>
    /\ crops = <<>>
    /\ crop_src = <<>>
    /\ disk = <<>>
    /\ good_crops = <<>>
    /\ rejected = <<>>
    /\ priced_items = <<>>
    /\ clips = <<>>
    /\ result = "running"
    /\ geom = [fn |-> "none"]
    /\ track = TrackIdle

\* item_detections: grouped[item_name] for the class being clustered
ItemDetections ==
    IF track.class \in 1..Len(track.names)
    THEN Grouped(detections, track.names[track.class])
    ELSE <<>>

\* the `for det in detections` loop that fills `grouped`
TrackGroup ==
    /\ pc = "group"
    /\ track' = [TrackIdle EXCEPT !.names = GroupKeys(detections)]
    /\ pc' = IF GroupKeys(detections) = <<>> THEN "return" ELSE "cluster"
    /\ UNCHANGED <<entry, BRAND_RULES, FACE_DIR, isOpened, video, heap,
                   frames, detections, unique_items, tracked_items, crops,
                   crop_src, disk, good_crops, rejected, priced_items, clips,
                   result, geom>>

\* one pass of the `for det in item_detections` loop
TrackAssign ==
    /\ pc = "cluster"
    /\ track.next <= Len(ItemDetections)
    /\ LET det == ItemDetections[track.next]
           k == FirstMatch(det, track.clusters, 1, IOU_THRESHOLD)
       IN  IF k = -1
           THEN Raise /\ track' = track
           ELSE /\ track' = [track EXCEPT
                                !.next = @ + 1,
                                !.clusters = IF k = 0 THEN Append(@, <<det>>)
                                             ELSE [@ EXCEPT ![k] = Append(@, det)]]
                /\ UNCHANGED <<pc, result>>
    /\ UNCHANGED <<entry, BRAND_RULES, FACE_DIR, isOpened, video, heap,
                   frames, detections, unique_items, tracked_items, crops,
                   crop_src, disk, good_crops, rejected, priced_items, clips,
                   geom>>

\* the `for idx, cluster in enumerate(clusters)` loop of one class, and the
\* step of the outer loop to the next class
TrackPick ==
    /\ pc = "cluster"
    /\ track.next > Len(ItemDetections)
    /\ track' = [track EXCEPT
                    !.final_items = @ \o ClassItems(track.names[track.class],
                                                    track.clusters),
                    !.finished = @ \o track.clusters,
                    !.class = @ + 1,
                    !.next = 1,
                    !.clusters = <<>>]
    /\ pc' = IF track.class < Len(track.names) THEN "cluster" ELSE "return"
    /\ UNCHANGED <<entry, BRAND_RULES, FACE_DIR, isOpened, video, heap,
                   frames, detections, unique_items, tracked_items, crops,
                   crop_src, disk, good_crops, rejected, priced_items, clips,
                   result, geom>>

\* return final_items
TrackReturn ==
    /\ pc = "return"
    /\ heap' = heap \o track.final_items
    /\ unique_items' = NewRefs(heap, Len(track.final_items))
    /\ pc' = "returned"
    /\ UNCHANGED <<entry, BRAND_RULES, FACE_DIR, isOpened, video, frames,
                   detections, tracked_items, crops, crop_src, disk,
                   good_crops, rejected, priced_items, clips, result, geom,
                   track>>

TrackNext ==
    \/ TrackGroup
    \/ TrackAssign
    \/ TrackPick
    \/ TrackReturn

SpecTrack == TrackInit /\ [][TrackNext]_vars

(***************************************************************************)
(* Views of the state used by the properties.                              *)
(***************************************************************************)
\* track_items has returned normally
Tracked == pc \notin {"import", "download", "extract", "detect", "track"} /\ result # "raised"

\* crop_items has been called
CropCalled == tracked_items # <<>>

\* crop_items has returned normally
Cropped == CropCalled /\ pc # "error"

\* the dict crop number i was cut from, as crop_items was handed it
CropSource(i) == heap[tracked_items[crop_src[i]]]

\* the position in crops of accepted crop number i
CropIndexOfGood(i) == CHOOSE j \in 1..Len(crops) : crops[j] = good_crops[i]

\* bbox is well formed: x1 <= x2 and y1 <= y2
WellFormed(bbox) == bbox[1] <= bbox[3] /\ bbox[2] <= bbox[4]

\* box lies within an image of the given size, corners in order
InImage(box, img_width, img_height) ==
    /\ 0 <= box[1] /\ box[1] <= box[3] /\ box[3] <= img_width
    /\ 0 <= box[2] /\ box[2] <= box[4] /\ box[4] <= img_height

(***************************************************************************)
(* C1. When crop_items is given the records track_items returned (as run() *)
(* gives them), it does not raise and returns exactly one CroppedItem for  *)
(* every UniqueItem whose frame decodes and whose padded crop is not       *)
(* empty.                                                                  *)
(***************************************************************************)
\* the UniqueItem's frame decodes and its padded crop is non-empty
Croppable(u) ==
    /\ Decodes(u["frame"])
    /\ LET image == ImageOf(u["frame"])
           box == ExpandBbox(u["bbox"], image.w, image.h, PADDING_RATIO)
       IN  SliceLen(box[1], box[3], image.w) * SliceLen(box[2], box[4], image.h) # 0

C1_CropConsumesTrackItemsOutput ==
    (entry = "run" /\ CropCalled) =>
        /\ result # "raised"
        /\ Len(crops) = Cardinality({i \in 1..Len(unique_items) :
                                        Croppable(heap[unique_items[i]])})

(***************************************************************************)
(* C2. Clustering idempotence: feeding the representative detections of    *)
(* track_items' output back into track_items with the same threshold       *)
(* yields the same set of items (class, bbox, confidence), the same item   *)
(* count, and every frames_seen equal to 1.                                *)
(***************************************************************************)
\* one detection per UniqueItem: its class, bbox, confidence and frame
Representatives(items) ==
    [i \in 1..Len(items) |-> Det(items[i]["frame"], items[i]["item"],
                                 items[i]["confidence"], items[i]["bbox"])]

ItemSet(items) ==
    {<<items[i]["item"], items[i]["bbox"], items[i]["confidence"]>> :
        i \in 1..Len(items)}

C2_ClusteringIdempotent ==
    (pc = "face") =>
        LET items == Deref(heap, unique_items)
            again == TrackItems(Representatives(items), IOU_THRESHOLD)
        IN  /\ ~again.err
            /\ ItemSet(again.items) = ItemSet(items)
            /\ Len(again.items) = Len(items)
            /\ \A i \in 1..Len(again.items) : again.items[i]["frames_seen"] = 1

(***************************************************************************)
(* C3. For every priced item rendered, the highlighted outline is the      *)
(* original bbox of the UniqueItem (before crop padding) and the leader    *)
(* line starts at the centre of that bbox.                                 *)
(***************************************************************************)
\* the tracked dict that clip i (priced item i, accepted crop i) comes from
ClipSource(i) == CropSource(CropIndexOfGood(i))

C3_OverlayOutlinesOriginalBbox ==
    (pc = "done" /\ clips # <<>>) =>
        \A i \in 1..Len(clips) :
            /\ clips[i].highlight = ClipSource(i)["bbox"]
            /\ clips[i].line_from = BboxCenter(ClipSource(i)["bbox"])

(***************************************************************************)
(* C4. For every item passed to estimate_prices, whatever its category,    *)
(* the luxury flag is true iff the confidence is >= PRICE_CONFIDENCE_MIN.  *)
(* That fails for a category without a rule; amended: an item whose        *)
(* category has a rule is luxury iff its confidence is >=                  *)
(* PRICE_CONFIDENCE_MIN, and an item whose category has no rule is never   *)
(* luxury.                                                                 *)
(***************************************************************************)
Priced == Deref(heap, priced_items)

\* the claim as stated
C4_LuxuryIffConfidentAnyCategory ==
    \A i \in 1..Len(Priced) :
        Priced[i]["luxury"] <=> (Priced[i]["confidence"] >= PRICE_CONFIDENCE_MIN)

\* the claim as amended
C4_LuxuryIffConfidentAndRuled ==
    \A i \in 1..Len(Priced) :
        IF Has(BRAND_RULES, Lower(Priced[i]["item"]))
        THEN Priced[i]["luxury"] <=>
                 (Priced[i]["confidence"] >= PRICE_CONFIDENCE_MIN)
        ELSE Priced[i]["luxury"] = FALSE

\* priced: a ruled item exactly at the threshold (luxury), a ruled item
\* below it (not luxury), and a confident item without a rule (not luxury)
C4_Witness ==
    /\ \E i \in 1..Len(Priced) :
          /\ Has(BRAND_RULES, Lower(Priced[i]["item"]))
          /\ Priced[i]["confidence"] = PRICE_CONFIDENCE_MIN
          /\ Priced[i]["luxury"]
    /\ \E i \in 1..Len(Priced) :
          /\ Has(BRAND_RULES, Lower(Priced[i]["item"]))
          /\ Priced[i]["confidence"] < PRICE_CONFIDENCE_MIN
          /\ ~Priced[i]["luxury"]
    /\ \E i \in 1..Len(Priced) :
          /\ ~Has(BRAND_RULES, Lower(Priced[i]["item"]))
          /\ Priced[i]["confidence"] >= PRICE_CONFIDENCE_MIN
          /\ ~Priced[i]["luxury"]

(***************************************************************************)
(* C5. For every bbox, image size and padding ratio, _expand_bbox returns  *)
(* a box within the image with its corners in order.  That fails for a     *)
(* bbox that is malformed or outside the image and for a negative ratio;   *)
(* amended: for every bbox that lies within the image (0 <= x1 <= x2 <=    *)
(* width, 0 <= y1 <= y2 <= height) and every padding ratio >= 0 the        *)
(* returned box lies within the image with its corners in order, a bbox    *)
(* touching an image edge included.                                        *)
(***************************************************************************)
ExpandReturned == pc = "returned" /\ geom.fn = "_expand_bbox"

\* the claim as stated
C5_ExpandWithinImageAnyBbox ==
    ExpandReturned => InImage(geom.ret, geom.img_width, geom.img_height)

\* the claim as amended
C5_ExpandWithinImage ==
    (/\ ExpandReturned
     /\ InImage(geom.bbox, geom.img_width, geom.img_height)
     /\ geom.padding_ratio >= 0) =>
        InImage(geom.ret, geom.img_width, geom.img_height)

\* a bbox that touches the left and the right edge of the image and lies
\* strictly inside it vertically was padded: its sides stay at the edges,
\* its top and bottom moved out
C5_Witness ==
    /\ ExpandReturned
    /\ InImage(geom.bbox, geom.img_width, geom.img_height)
    /\ geom.padding_ratio > 0
    /\ geom.bbox[1] = 0 /\ geom.bbox[3] = geom.img_width
    /\ geom.ret[1] = 0 /\ geom.ret[3] = geom.img_width
    /\ geom.ret[2] < geom.bbox[2] /\ geom.ret[4] > geom.bbox[4]

(***************************************************************************)
(* C6. A detection whose bbox has x1 > x2 (or y1 > y2) is fatal to         *)
(* track_items: the call ends in an error and no UniqueItem is produced    *)
(* from the malformed box.                                                 *)
(***************************************************************************)
C6_MalformedBboxIsFatal ==
    (/\ pc \notin {"import", "download", "extract", "detect", "track"}
     /\ \E i \in 1..Len(detections) : ~WellFormed(detections[i]["bbox"])) =>
        /\ result = "raised"
        /\ \A i \in 1..Len(unique_items) :
              WellFormed(heap[unique_items[i]]["bbox"])

(***************************************************************************)
(* C7. The two-digit field of every crop file name is the item's cluster   *)
(* index within its class, the index of the UniqueItem's id: the name is   *)
(* {item_class}_{cluster_index:02d}_{source_frame_stem}.                   *)
(***************************************************************************)
\* the digits after "{item_class}_" in an id
IdIndexField(id) == SubSeq(id, 3, Len(id))

\* a decimal number zero-padded to two digits
Pad2(digits) == IF Len(digits) < 2 THEN <<"0">> \o digits ELSE digits

C7_CropNameHoldsClusterIndex ==
    Cropped =>
        \A i \in 1..Len(crops) :
            heap[crops[i]]["crop_path"] =
                <<CropSource(i)["item"], "_">>
                \o Pad2(IdIndexField(CropSource(i)["id"]))
                \o <<"_", CropSource(i)["best_frame"], ".jpg">>

(***************************************************************************)
(* C8. Every CroppedItem carries the id of the UniqueItem it was cut from, *)
(* so a field attached to the UniqueItem in step 4.5 (the face crop) is    *)
(* found for the accepted crop in step 6.5.                                *)
(***************************************************************************)
C8_CroppedItemCarriesId ==
    /\ Cropped =>
          \A i \in 1..Len(crops) :
              /\ Has(heap[crops[i]], "id")
              /\ heap[crops[i]]["id"] = CropSource(i)["id"]
    /\ pc \in {"price", "overlay", "done"} =>
          \A i \in 1..Len(good_crops) :
              Has(CropSource(CropIndexOfGood(i)), "face_crop") =>
                  Has(heap[good_crops[i]], "glasses")

(***************************************************************************)
(* C9. No stage mutates the records it is given: filter_crops leaves every *)
(* record of its input list with the fields and values it had, and its     *)
(* accepted and rejected records are new values; estimate_prices leaves    *)
(* every input record unchanged.                                           *)
(***************************************************************************)
RefsOf(refs) == {refs[i] : i \in 1..Len(refs)}

C9_StagesDoNotMutateInput ==
    [][/\ pc = "filter" =>
             /\ \A r \in RefsOf(crops) : heap'[r] = heap[r]
             /\ (RefsOf(good_crops') \cup RefsOf(rejected')) \cap RefsOf(crops) = {}
       /\ pc = "price" =>
             /\ \A r \in RefsOf(good_crops) : heap'[r] = heap[r]
             /\ RefsOf(priced_items') \cap RefsOf(good_crops) = {}]_vars

(***************************************************************************)
(* C10. The rule lookup is case-insensitive in the category for every rule *)
(* table (the fallback table or one loaded from brand_rules.json): an item *)
(* whose category equals a key of the table up to letter case is priced    *)
(* with that key's rule, and two categories that differ only in letter     *)
(* case get the same estimate.                                             *)
(***************************************************************************)
\* the keys of the rule table equal to the category up to letter case
KeysUpToCase(rules_table, item_type) ==
    {k \in DOMAIN rules_table : Lower(k) = Lower(item_type)}

C10_RuleLookupCaseInsensitive ==
    /\ \A i \in 1..Len(Priced) :
          \A k \in KeysUpToCase(BRAND_RULES, Priced[i]["item"]) :
              /\ Priced[i]["estimation_reason"] # "no_rules_for_item"
              /\ Priced[i]["price_range"] \in
                     {BRAND_RULES[k]["luxury_range"], BRAND_RULES[k]["regular_range"]}
    /\ \A i, j \in 1..Len(Priced) :
          (/\ Lower(Priced[i]["item"]) = Lower(Priced[j]["item"])
           /\ Priced[i]["confidence"] = Priced[j]["confidence"]) =>
              /\ Priced[i]["price_range"] = Priced[j]["price_range"]
              /\ Priced[i]["luxury"] = Priced[j]["luxury"]
              /\ Priced[i]["estimation_reason"] = Priced[j]["estimation_reason"]

(***************************************************************************)
(* C11. Cluster count monotonicity: for every input and every item class,  *)
(* the number of UniqueItems track_items returns for that class is at most *)
(* the number of input detections of that class, and it equals that number *)
(* whenever no two detections of the class have IOU >= the threshold.      *)
(***************************************************************************)
\* track_items has returned its list (run may have raised later)
TrackReturned ==
    /\ entry \in {"run", "stages"}
    /\ pc \notin {"import", "download", "extract", "detect", "track"}
    /\ pc = "error" => CropCalled

\* the item classes of a list of detections or items
ClassesOf(seq) == {seq[i]["item"] : i \in 1..Len(seq)}

\* the positions of class c in a list of detections or items
PositionsOf(seq, c) == {i \in 1..Len(seq) : seq[i]["item"] = c}

\* no two detections of class c reach the threshold
NoPairReaches(dets, c, thr) ==
    \A i, j \in PositionsOf(dets, c) :
        i # j => ~IouAtLeast(dets[i]["bbox"], dets[j]["bbox"], thr)

C11_ClusterCountMonotone ==
    TrackReturned =>
        LET items == Deref(heap, unique_items)
        IN  \A c \in ClassesOf(detections) \cup ClassesOf(items) :
               /\ Cardinality(PositionsOf(items, c))
                      <= Cardinality(PositionsOf(detections, c))
               /\ NoPairReaches(detections, c, IOU_THRESHOLD) =>
                      Cardinality(PositionsOf(items, c))
                          = Cardinality(PositionsOf(detections, c))

\* tracked: a class with several detections that overlap one another, no
\* two of them up to the threshold, and as many items as detections
C11_Witness ==
    /\ TrackReturned
    /\ \E c \in ClassesOf(detections) :
          /\ Cardinality(PositionsOf(detections, c)) >= 2
          /\ NoPairReaches(detections, c, IOU_THRESHOLD)
          /\ \E i, j \in PositionsOf(detections, c) :
                /\ i # j
                /\ InterArea(detections[i]["bbox"], detections[j]["bbox"]) > 0
          /\ Cardinality(PositionsOf(Deref(heap, unique_items), c))
                 = Cardinality(PositionsOf(detections, c))

(***************************************************************************)
(* C12. The quality gate's verdict for a crop is decided by the first      *)
(* failing check in the fixed order unreadable -> too_small (width < 64 or *)
(* height < 64 or area < 4096) -> too_blurry (blur < 90) -> low_contrast   *)
(* (contrast < 15) -> mostly_dark (black ratio > 0.6): the reason recorded *)
(* is that of the earliest failing check, later checks leave no trace, and *)
(* the crop is accepted iff no check fails; a crop that is both too small  *)
(* and too dark is rejected as too_small.                                  *)
(***************************************************************************)
\* filter_crops has returned from a list that held crops
FilterReturned == crops # <<>> /\ pc \notin {"filter", "error"}

TooSmall(image) ==
    image.w < MIN_WIDTH \/ image.h < MIN_HEIGHT \/ image.w * image.h < MIN_AREA
TooBlurry(image) == image.blur < BLUR_THRESHOLD
LowContrast(image) == image.contrast < MIN_CONTRAST_STD
MostlyDark(image) == image.black > MAX_BLACK_RATIO

\* the keys of a crop dict that record a measurement
Measured(item) ==
    DOMAIN item \cap {"blur_score", "contrast", "black_ratio", "quality"}

\* the crop is in the rejected list with this reason and these measurements
RejectedAs(r, reason, measured) ==
    /\ r \in RefsOf(rejected)
    /\ r \notin RefsOf(good_crops)
    /\ Has(heap[r], "reason") /\ heap[r]["reason"] = reason
    /\ Measured(heap[r]) = measured

C12_QualityOrder ==
    FilterReturned =>
        \A i \in 1..Len(crops) :
            LET r == crops[i]
                crop_path == heap[r]["crop_path"]
                image == disk[crop_path]
            IN  IF ~Readable(disk, crop_path)
                THEN RejectedAs(r, "unreadable_image", {})
                ELSE IF TooSmall(image) THEN RejectedAs(r, "too_small", {})
                ELSE IF TooBlurry(image)
                THEN RejectedAs(r, "too_blurry", {"blur_score"})
                ELSE IF LowContrast(image)
                THEN RejectedAs(r, "low_contrast", {"contrast"})
                ELSE IF MostlyDark(image)
                THEN RejectedAs(r, "mostly_dark", {"black_ratio"})
                ELSE /\ r \in RefsOf(good_crops)
                     /\ r \notin RefsOf(rejected)
                     /\ ~Has(heap[r], "reason")
                     /\ Measured(heap[r]) = {"quality"}

\* filtered: a crop both too small and too dark, rejected as too_small; a
\* crop both blurry and flat, rejected as too_blurry; a crop that lies on
\* every threshold, accepted
C12_Witness ==
    /\ FilterReturned
    /\ \E r \in RefsOf(crops) :
          /\ Readable(disk, heap[r]["crop_path"])
          /\ TooSmall(disk[heap[r]["crop_path"]])
          /\ MostlyDark(disk[heap[r]["crop_path"]])
          /\ RejectedAs(r, "too_small", {})
    /\ \E r \in RefsOf(crops) :
          /\ Readable(disk, heap[r]["crop_path"])
          /\ ~TooSmall(disk[heap[r]["crop_path"]])
          /\ TooBlurry(disk[heap[r]["crop_path"]])
          /\ LowContrast(disk[heap[r]["crop_path"]])
          /\ RejectedAs(r, "too_blurry", {"blur_score"})
    /\ \E r \in RefsOf(good_crops) :
          /\ disk[heap[r]["crop_path"]].w = MIN_WIDTH
          /\ disk[heap[r]["crop_path"]].blur = BLUR_THRESHOLD
          /\ disk[heap[r]["crop_path"]].black = MAX_BLACK_RATIO

(***************************************************************************)
(* C13. filter_crops partitions its input: every input CroppedItem ends in *)
(* exactly one of the accepted list and the rejected list, each list keeps *)
(* the input's relative order, and len(accepted) + len(rejected) =         *)
(* len(input); a rejected crop is never among the items that are priced or *)
(* scheduled.                                                              *)
(***************************************************************************)
\* the position of reference r in the list refs
PositionIn(refs, r) == CHOOSE j \in 1..Len(refs) : refs[j] = r

\* sub holds references of refs, each once, in the order refs has them
KeepsOrderOf(sub, refs) ==
    /\ RefsOf(sub) \subseteq RefsOf(refs)
    /\ \A i, j \in 1..Len(sub) :
          i < j => PositionIn(refs, sub[i]) < PositionIn(refs, sub[j])

C13_FilterPartitions ==
    FilterReturned =>
        /\ RefsOf(good_crops) \cup RefsOf(rejected) = RefsOf(crops)
        /\ RefsOf(good_crops) \cap RefsOf(rejected) = {}
        /\ Len(good_crops) + Len(rejected) = Len(crops)
        /\ KeepsOrderOf(good_crops, crops)
        /\ KeepsOrderOf(rejected, crops)
        /\ Len(priced_items) <= Len(good_crops)
        /\ Len(clips) <= Len(good_crops)
        /\ \A i \in 1..Len(priced_items) :
              /\ ~Has(Priced[i], "reason")
              /\ Priced[i]["crop_path"] = heap[good_crops[i]]["crop_path"]
              /\ \A r \in RefsOf(rejected) :
                    Priced[i]["crop_path"] # heap[r]["crop_path"]
        /\ \A i \in 1..Len(clips) :
              clips[i].label = PriceLabel(Priced[i])

\* priced and scheduled: a list in which an unreadable crop stands between
\* two accepted ones
C13_Witness ==
    /\ FilterReturned
    /\ clips # <<>>
    /\ Len(priced_items) >= 2
    /\ \E i, j, k \in 1..Len(crops) :
          /\ i < j /\ j < k
          /\ crops[i] \in RefsOf(good_crops)
          /\ crops[j] \in RefsOf(rejected)
          /\ crops[k] \in RefsOf(good_crops)
    /\ \E r \in RefsOf(rejected) : ~Readable(disk, heap[r]["crop_path"])

(***************************************************************************)
(* C14. estimate_prices is order-preserving and count-preserving: for      *)
(* every input list the output has the same length, and the i-th output is *)
(* the i-th input with all its existing fields unchanged plus price_range, *)
(* luxury and estimation_reason; no item is dropped, added or reordered.   *)
(***************************************************************************)
\* estimate_prices has returned from a list that held items
PriceReturned == good_crops # <<>> /\ pc \in {"overlay", "done"}

PriceFields == {"price_range", "luxury", "estimation_reason"}

C14_PricesKeepOrderAndFields ==
    PriceReturned =>
        /\ Len(priced_items) = Len(good_crops)
        /\ \A i \in 1..Len(good_crops) :
              LET item == heap[good_crops[i]]
              IN  /\ DOMAIN Priced[i] = DOMAIN item \cup PriceFields
                  /\ \A k \in DOMAIN item : Priced[i][k] = item[k]

\* priced: a list of at least two items of different categories, one of
\* them without a rule, each carrying the measurements of the quality gate
C14_Witness ==
    /\ PriceReturned
    /\ Len(priced_items) >= 2
    /\ Priced[1]["item"] # Priced[2]["item"]
    /\ \E i \in 1..Len(priced_items) :
          Priced[i]["estimation_reason"] = "no_rules_for_item"
    /\ \A i \in 1..Len(priced_items) :
          /\ Has(Priced[i], "quality")
          /\ Priced[i]["crop_path"] = heap[good_crops[i]]["crop_path"]

(***************************************************************************)
(* C15. The price estimate has exactly three outcomes: a category with a   *)
(* rule and confidence >= the threshold gets that category's luxury range, *)
(* luxury = true and reason high_confidence_detection; a category with a   *)
(* rule and confidence below the threshold gets the regular range, luxury  *)
(* = false and reason low_confidence_detection; a category with no rule    *)
(* gets the fixed default range, luxury = false and reason                 *)
(* no_rules_for_item, whatever its confidence.  (The rule of a category is *)
(* the one the table holds under the category in lower case.)              *)
(***************************************************************************)
\* the priced item carries this estimate
Estimated(item, price_range, luxury, reason) ==
    /\ item["price_range"] = price_range
    /\ item["luxury"] = luxury
    /\ item["estimation_reason"] = reason

C15_ThreeOutcomes ==
    \A i \in 1..Len(priced_items) :
        LET category == Lower(Priced[i]["item"])
        IN  IF Has(BRAND_RULES, category)
            THEN IF Priced[i]["confidence"] >= PRICE_CONFIDENCE_MIN
                 THEN Estimated(Priced[i], BRAND_RULES[category]["luxury_range"],
                                TRUE, "high_confidence_detection")
                 ELSE Estimated(Priced[i], BRAND_RULES[category]["regular_range"],
                                FALSE, "low_confidence_detection")
            ELSE Estimated(Priced[i], DEFAULT_PRICE_RANGE, FALSE,
                           "no_rules_for_item")

\* priced under the fallback table: a watch at 0.75 (luxury range), a watch
\* at 0.3 (regular range) and a hat (default range)
C15_Witness ==
    /\ BRAND_RULES = FallbackRules
    /\ \E i \in 1..Len(priced_items) :
          /\ Priced[i]["item"] = "watch" /\ Priced[i]["confidence"] = 75
          /\ Estimated(Priced[i], FallbackRules["watch"]["luxury_range"], TRUE,
                       "high_confidence_detection")
    /\ \E i \in 1..Len(priced_items) :
          /\ Priced[i]["item"] = "watch" /\ Priced[i]["confidence"] = 30
          /\ Estimated(Priced[i], FallbackRules["watch"]["regular_range"], FALSE,
                       "low_confidence_detection")
    /\ \E i \in 1..Len(priced_items) :
          /\ Priced[i]["item"] = "hat"
          /\ Estimated(Priced[i], DEFAULT_PRICE_RANGE, FALSE,
                       "no_rules_for_item")

(***************************************************************************)
(* C16. Scheduling: for N priced items and display duration D,             *)
(* render_overlay gives item i (0-indexed, input order) the window         *)
(* [i*D, (i+1)*D); the windows of any two distinct items are disjoint,     *)
(* consecutive windows are contiguous, and the annotation track ends at    *)
(* N*D.  The products are the float products the program's arithmetic      *)
(* gives.                                                                  *)
(***************************************************************************)
\* render_overlay has returned the clips of a list that held items
OverlayReturned == pc = "done" /\ clips # <<>>

C16_WindowsTileTimeline ==
    OverlayReturned =>
        /\ Len(clips) = Len(priced_items)
        /\ \A i \in 1..Len(clips) :
              /\ clips[i].start = FloatTimesInt(i - 1, DisplaySeconds)
              /\ clips[i].end = FloatTimesInt(i, DisplaySeconds)
        /\ \A i, j \in 1..Len(clips) :
              i < j => ~FloatLess(clips[j].start, clips[i].end)
        /\ \A i \in 1..(Len(clips) - 1) : clips[i].end = clips[i + 1].start
        /\ clips[Len(clips)].end = FloatTimesInt(Len(clips), DisplaySeconds)

(***************************************************************************)
(* C17. Abort on empty intermediate result: in run(), an empty result at   *)
(* any stage (no frames, no detections, no unique items, no crops, no      *)
(* accepted crops) halts the pipeline: run returns None without raising    *)
(* and no later stage (in particular estimate_prices and render_overlay)   *)
(* is invoked.                                                             *)
(***************************************************************************)
\* run has returned None
ReturnedNone == pc = "done" /\ result = "None"

\* none of the stages from crop_items on was invoked
NoneFromCropOn ==
    /\ tracked_items = <<>> /\ crops = <<>> /\ disk = <<>>
    /\ good_crops = <<>> /\ rejected = <<>>
    /\ priced_items = <<>> /\ clips = <<>>

\* run was entered and its call of extract_frames has returned: the import
\* of orchestrator.py succeeded, download_video returned and the video opened
ExtractReturned ==
    /\ entry = "run"
    /\ FACE_DIR # "undefined"
    /\ ~DownloadVideoRaises(video)
    /\ isOpened
    /\ pc \notin {"import", "download", "extract"}

C17_AbortOnEmpty ==
    /\ (ExtractReturned /\ frames = <<>>) =>
          ReturnedNone /\ detections = <<>> /\ heap = <<>> /\ NoneFromCropOn
    /\ (ExtractReturned /\ pc # "detect" /\ detections = <<>>) =>
          ReturnedNone /\ heap = <<>> /\ NoneFromCropOn
    /\ (TrackReturned /\ unique_items = <<>>) =>
          ReturnedNone /\ NoneFromCropOn
    /\ (Cropped /\ pc # "crop" /\ crops = <<>>) =>
          /\ ReturnedNone
          /\ good_crops = <<>> /\ rejected = <<>>
          /\ priced_items = <<>> /\ clips = <<>>
    /\ (FilterReturned /\ good_crops = <<>>) =>
          ReturnedNone /\ priced_items = <<>> /\ clips = <<>>

\* run extracted frames, the detector found nothing in them, and run
\* returned None
C17_Witness ==
    /\ ExtractReturned
    /\ frames # <<>>
    /\ detections = <<>>
    /\ ReturnedNone
    /\ heap = <<>>
    /\ NoneFromCropOn

(***************************************************************************)
(* C18. IOU symmetry and bounds: for all well-formed integer boxes A and B *)
(* (x1 < x2, y1 < y2), _iou(A,B) = _iou(B,A), _iou(A,A) = 1, and           *)
(* 0 <= _iou(A,B) <= 1.                                                    *)
(***************************************************************************)
IouReturned == pc = "returned" /\ geom.fn = "_iou"

\* x1 < x2 and y1 < y2
ProperBox(box) == box[1] < box[3] /\ box[2] < box[4]

C18_IouSymmetricAndBounded ==
    (IouReturned /\ ProperBox(geom.box1) /\ ProperBox(geom.box2)) =>
        /\ Has(geom, "ret")
        /\ ~IouRaises(geom.box2, geom.box1)
        /\ geom.ret[1] * Iou(geom.box2, geom.box1)[2]
               = Iou(geom.box2, geom.box1)[1] * geom.ret[2]
        /\ geom.ret[2] > 0
        /\ 0 <= geom.ret[1] /\ geom.ret[1] <= geom.ret[2]
        /\ geom.box1 = geom.box2 => geom.ret[1] = geom.ret[2]

\* _iou returned for two different well-formed boxes of different areas
\* that overlap in part
C18_Witness ==
    /\ IouReturned
    /\ ProperBox(geom.box1) /\ ProperBox(geom.box2)
    /\ BoxArea(geom.box1) # BoxArea(geom.box2)
    /\ Has(geom, "ret")
    /\ 0 < geom.ret[1] /\ geom.ret[1] < geom.ret[2]

(***************************************************************************)
(* C19. _iou never divides by zero and is never negative: for every pair   *)
(* of integer boxes, including zero-area and non-overlapping ones, it      *)
(* returns 0.0 when the boxes do not overlap, and whenever the             *)
(* intersection area is positive the union area it divides by is strictly  *)
(* positive.                                                               *)
(***************************************************************************)
\* the two boxes share a region of positive area
Overlap(box1, box2) ==
    /\ Max(box1[1], box2[1]) < Min(box1[3], box2[3])
    /\ Max(box1[2], box2[2]) < Min(box1[4], box2[4])

C19_IouNeverDividesByZero ==
    IouReturned =>
        /\ ~Has(geom, "raised")
        /\ Has(geom, "ret")
        /\ geom.ret[2] > 0 /\ geom.ret[1] >= 0
        /\ ~Overlap(geom.box1, geom.box2) => geom.ret = <<0, 1>>
        /\ Overlap(geom.box1, geom.box2) =>
              /\ UnionArea(geom.box1, geom.box2) > 0
              /\ geom.ret = <<InterArea(geom.box1, geom.box2),
                              UnionArea(geom.box1, geom.box2)>>

\* _iou returned 0.0 for two boxes whose union area is 0
C19_Witness ==
    /\ IouReturned
    /\ UnionArea(geom.box1, geom.box2) = 0
    /\ Has(geom, "ret")
    /\ geom.ret = <<0, 1>>

(***************************************************************************)
(* C20. Each UniqueItem's id is "{item_class}_{k}" where k is the 0-based  *)
(* creation index of its cluster within its class's cluster list; within   *)
(* one track_items result all ids are pairwise distinct, and two runs on   *)
(* the same detection sequence (same order) produce the same ids for the   *)
(* same items.                                                             *)
(***************************************************************************)
\* the positions, among the first n detections of a class, of those that
\* open a cluster: the ones that reach no anchor before them
RECURSIVE AnchorPositions(_, _, _)
AnchorPositions(dets, n, thr) ==
    IF n = 0 THEN <<>>
    ELSE LET before == AnchorPositions(dets, n - 1, thr)
         IN  IF \E a \in 1..Len(before) :
                    IouAtLeast(dets[n]["bbox"], dets[before[a]]["bbox"], thr)
             THEN before
             ELSE Append(before, n)

\* the creation index (0-based) of the cluster detection n of a class is
\* put in: the one it opens, or the first whose anchor it reaches
ClusterOf(dets, n, thr) ==
    LET anchors == AnchorPositions(dets, n, thr)
    IN  IF anchors[Len(anchors)] = n THEN Len(anchors) - 1
        ELSE (CHOOSE a \in 1..Len(anchors) :
                 /\ IouAtLeast(dets[n]["bbox"], dets[anchors[a]]["bbox"], thr)
                 /\ \A b \in 1..(a - 1) :
                       ~IouAtLeast(dets[n]["bbox"], dets[anchors[b]]["bbox"], thr))
             - 1

\* the detections of a class that cluster k holds
MembersOf(dets, k, thr) ==
    {n \in 1..Len(dets) : ClusterOf(dets, n, thr) = k}

\* the items of class c, in output order
ItemsOfClass(items, c) == SelectSeq(items, LAMBDA u : u["item"] = c)

C20_IdIsClassAndClusterIndex ==
    TrackReturned =>
        LET items == Deref(heap, unique_items)
            again == TrackItems(detections, IOU_THRESHOLD)
        IN  /\ \A i, j \in 1..Len(items) :
                  i # j => items[i]["id"] # items[j]["id"]
            /\ ~again.err
            /\ Len(again.items) = Len(items)
            /\ \A i \in 1..Len(items) : again.items[i]["id"] = items[i]["id"]
            /\ \A c \in ClassesOf(detections) \cup ClassesOf(items) :
                  LET dets == Grouped(detections, c)
                      of_c == ItemsOfClass(items, c)
                  IN  /\ Len(of_c) = Len(AnchorPositions(dets, Len(dets),
                                                         IOU_THRESHOLD))
                      /\ \A k \in 0..(Len(of_c) - 1) :
                            LET members == MembersOf(dets, k, IOU_THRESHOLD)
                            IN  /\ of_c[k + 1]["id"] = <<c, "_">> \o Str(k)
                                /\ of_c[k + 1]["frames_seen"] = Cardinality(members)
                                /\ \E n \in members :
                                      /\ dets[n]["bbox"] = of_c[k + 1]["bbox"]
                                      /\ dets[n]["confidence"]
                                             = of_c[k + 1]["confidence"]
                                /\ \A n \in members :
                                      dets[n]["confidence"]
                                          <= of_c[k + 1]["confidence"]

\* tracked: three detections of one class, the second of which opened
\* cluster 1 before the third joined cluster 0
C20_Witness ==
    /\ TrackReturned
    /\ Len(detections) = 3
    /\ Cardinality(ClassesOf(detections)) = 1
    /\ ClusterOf(detections, 2, IOU_THRESHOLD) = 1
    /\ ClusterOf(detections, 3, IOU_THRESHOLD) = 0
    /\ Len(unique_items) = 2
    /\ heap[unique_items[1]]["id"] = <<detections[1]["item"], "_", "0">>
    /\ heap[unique_items[1]]["frames_seen"] = 2
    /\ heap[unique_items[2]]["id"] = <<detections[1]["item"], "_", "1">>

(***************************************************************************)
(* The clustering loop of track_items, pass by pass.                       *)
(***************************************************************************)
\* the class whose detections the loop is clustering
ClassInHand == track.names[track.class]

\* the loop is between two passes over the detections of a class
Clustering ==
    entry = "track_items" /\ pc = "cluster" /\ track.class <= Len(track.names)

\* the k-th detection of class c in the order of the input list
NthOfClass(dets, c, k) ==
    dets[CHOOSE p \in PositionsOf(dets, c) :
             Cardinality({q \in PositionsOf(dets, c) : q <= p}) = k]

\* the clusters whose anchor (first member) reaches the threshold with det
Reached(det, clusters, thr) ==
    {c \in 1..Len(clusters) :
         IouAtLeast(det["bbox"], clusters[c][1]["bbox"], thr)}

\* the smallest number of a non-empty set of numbers
Least(S) == CHOOSE m \in S : \A n \in S : m <= n

\* C21: greedy first-match anchor clustering. Each pass of the loop takes the
\* next detection of the class in hand, in the order of the input list; the
\* detection joins the earliest-created cluster whose anchor has IOU >=
\* threshold with it (only anchors are compared), and it starts a new cluster,
\* itself the anchor, exactly when no anchor reaches the threshold; every
\* member of every cluster is of the class in hand.
C21_GreedyFirstMatch ==
    [][(Clustering
        /\ track.next <= Cardinality(PositionsOf(detections, ClassInHand)))
       => LET det == NthOfClass(detections, ClassInHand, track.next)
              reached == Reached(det, track.clusters, IOU_THRESHOLD)
          IN  /\ track'.next = track.next + 1
              /\ track'.class = track.class
              /\ reached # {} =>
                     track'.clusters =
                         [track.clusters EXCEPT
                              ![Least(reached)] = Append(@, det)]
              /\ reached = {} =>
                     track'.clusters = Append(track.clusters, <<det>>)
              /\ \A c \in 1..Len(track'.clusters) :
                     \A m \in 1..Len(track'.clusters[c]) :
                         track'.clusters[c][m]["item"] = ClassInHand]_vars

\* C21's case: the third detection reaches the anchors of two clusters and
\* has joined the one created first
C21_Witness ==
    /\ Clustering
    /\ Len(detections) = 3
    /\ Len(track.clusters) = 2
    /\ track.clusters[1] = <<detections[1], detections[3]>>
    /\ track.clusters[2] = <<detections[2]>>
    /\ IouAtLeast(detections[3]["bbox"], detections[2]["bbox"], IOU_THRESHOLD)
    /\ ~IouAtLeast(detections[2]["bbox"], detections[1]["bbox"], IOU_THRESHOLD)

\* u carries the bbox, frame and confidence of member m of the cluster
Represents(u, cluster, m) ==
    /\ u["bbox"] = cluster[m]["bbox"]
    /\ u["frame"] = cluster[m]["frame"]
    /\ u["confidence"] = cluster[m]["confidence"]

\* member m has the maximum confidence of the cluster and is the earliest
\* member that has it
EarliestMaximum(cluster, m) ==
    /\ \A j \in 1..Len(cluster) :
           cluster[j]["confidence"] <= cluster[m]["confidence"]
    /\ \A j \in 1..(m - 1) :
           cluster[j]["confidence"] < cluster[m]["confidence"]

\* C22: representative selection. Every item track_items has appended to
\* final_items carries the bbox, frame and confidence of the member of its
\* cluster with the maximum confidence, the earliest such member on exact
\* ties, and its frames_seen is the size of the cluster.
C22_RepresentativeIsEarliestMaximum ==
    entry = "track_items" =>
        /\ Len(track.final_items) = Len(track.finished)
        /\ \A i \in 1..Len(track.final_items) :
               /\ track.final_items[i]["frames_seen"] = Len(track.finished[i])
               /\ \E m \in 1..Len(track.finished[i]) :
                      /\ EarliestMaximum(track.finished[i], m)
                      /\ Represents(track.final_items[i], track.finished[i], m)
        /\ pc = "returned" => Deref(heap, unique_items) = track.final_items

\* C22's case: the example's three watch detections returned as two items,
\* the first seen twice with the second detection's confidence and bbox
C22_Witness ==
    /\ entry = "track_items"
    /\ pc = "returned"
    /\ Len(detections) = 3
    /\ \A i \in 1..3 : detections[i]["item"] = "watch"
    /\ detections[1]["bbox"] = <<10, 10, 50, 50>>
    /\ detections[1]["confidence"] = 70
    /\ detections[2]["bbox"] = <<12, 11, 49, 52>>
    /\ detections[2]["confidence"] = 90
    /\ detections[3]["bbox"] = <<200, 200, 240, 240>>
    /\ detections[3]["confidence"] = 60
    /\ Len(unique_items) = 2
    /\ heap[unique_items[1]]["frames_seen"] = 2
    /\ heap[unique_items[1]]["confidence"] = 90
    /\ heap[unique_items[1]]["bbox"] = <<12, 11, 49, 52>>
    /\ heap[unique_items[2]]["frames_seen"] = 1
    /\ heap[unique_items[2]]["confidence"] = 60

(***************************************************************************)
(* Conservation of detections through track_items.                         *)
(***************************************************************************)
\* the sum of frames_seen over a list of items
RECURSIVE SeenTotal(_)
SeenTotal(items) ==
    IF items = <<>> THEN 0
    ELSE items[1]["frames_seen"] + SeenTotal(Tail(items))

\* run returned from its `if not unique_items` branch: it had detections,
\* and track_items gave it nothing
DeduplicatedAway ==
    /\ entry = "run"
    /\ detections # <<>>
    /\ unique_items = <<>>
    /\ pc \notin {"import", "download", "extract", "detect", "track"}

\* C23: conservation of detections. Once track_items has returned, the
\* frames_seen of its items add up to the number of detections it was
\* given and each is at least 1; a non-empty detection list gives a
\* non-empty result, and orchestrator.run never leaves through its "all
\* detections deduplicated away" branch.
C23_DetectionsConserved ==
    /\ TrackReturned =>
           /\ SeenTotal(Deref(heap, unique_items)) = Len(detections)
           /\ \A i \in 1..Len(unique_items) :
                  heap[unique_items[i]]["frames_seen"] >= 1
           /\ detections # <<>> => unique_items # <<>>
    /\ ~DeduplicatedAway

\* C23's case: run's track_items step merged two of three detections, and the
\* two items account for all three
C23_Witness ==
    /\ entry = "run"
    /\ TrackReturned
    /\ Len(detections) = 3
    /\ Len(unique_items) = 2
    /\ \E i \in 1..2 : heap[unique_items[i]]["frames_seen"] = 2
    /\ SeenTotal(Deref(heap, unique_items)) = 3

(***************************************************************************)
(* Separation of the clusters track_items builds.                          *)
(***************************************************************************)
\* every cluster built so far, in the order of creation: those of the
\* classes already finished, then those of the class in hand
ClustersSoFar == track.finished \o track.clusters

\* the clusters of the class of cluster j that were created before it
EarlierOfClass(clusters, j) ==
    {i \in 1..(j - 1) : clusters[i][1]["item"] = clusters[j][1]["item"]}

\* boxes a and b reach the IOU threshold, in either order of the arguments
Reaches(a, b) ==
    \/ IouAtLeast(a["bbox"], b["bbox"], IOU_THRESHOLD)
    \/ IouAtLeast(b["bbox"], a["bbox"], IOU_THRESHOLD)

\* C24: cluster separation. At every point of the clustering loop of
\* track_items and at its end, within a class the anchors of two distinct
\* clusters have IOU < threshold, every non-anchor member has IOU >=
\* threshold with the anchor of its own cluster, and IOU < threshold with the
\* anchor of every cluster created before the one it joined.
C24_ClustersSeparated ==
    entry = "track_items" =>
        \A j \in 1..Len(ClustersSoFar) :
            /\ \A i \in EarlierOfClass(ClustersSoFar, j) :
                   ~Reaches(ClustersSoFar[i][1], ClustersSoFar[j][1])
            /\ \A m \in 2..Len(ClustersSoFar[j]) :
                   /\ IouAtLeast(ClustersSoFar[j][m]["bbox"],
                                 ClustersSoFar[j][1]["bbox"], IOU_THRESHOLD)
                   /\ \A i \in EarlierOfClass(ClustersSoFar, j) :
                          ~Reaches(ClustersSoFar[j][m], ClustersSoFar[i][1])

\* C24's case: in the middle of the loop the class in hand has two clusters
\* whose anchors overlap below the threshold, and the second cluster has a
\* member besides its anchor
C24_Witness ==
    /\ Clustering
    /\ Len(track.clusters) = 2
    /\ Len(track.clusters[2]) = 2
    /\ InterArea(track.clusters[1][1]["bbox"], track.clusters[2][1]["bbox"]) > 0
    /\ InterArea(track.clusters[2][2]["bbox"], track.clusters[1][1]["bbox"]) > 0

=============================================================================
